---------------------------- MODULE Spec2Model ----------------------------
(***************************************************************************)
(* The render-ahead page cache and event/redraw loop of beamview, in its   *)
(* four variants:                                                          *)
(*   "ring"  src/unnamed/part_000  3-slot ring indexed by page mod 3       *)
(*   "tab"   src/unnamed/part_001  full table with a fill cursor           *)
(*   "gl"    src/unnamed/part_002  full table, GLFW, cache_complete flag   *)
(*   "sw"    src/beamview.c        sliding window prev/cur/next            *)
(* One behaviour runs one of the four programs (variant is fixed by Init). *)
(* Scales are kept in thousandths (1000 is scale 1.0).  Every page has the *)
(* same intrinsic size.  log lists, in order, the renders, destructions,   *)
(* warnings and presentations the most recent step performed.  fills and   *)
(* quiet are history variables of the ring: fills[i] is the page of the    *)
(* latest page_cache_update call that mapped to slot i since all slots     *)
(* were last invalidated, quiet says that the idle fill has set complete   *)
(* and neither update_scale nor a navigation miss has run since.           *)
(***************************************************************************)
EXTENDS Integers, Sequences, FiniteSets, TLC

VARIABLES variant, ps, win, queue, pc, log, fills, quiet

vars == <<variant, ps, win, queue, pc, log, fills, quiet>>

\* Bounds of the model: pages of the document, pending events.
MaxPages == 4
MaxQueue == 1

CACHE_SIZE == 3
NUM_CONTEXTS == 2
page_number_invalid == -1
\* fabs(new_scale - current_scale) > 0.01, in thousandths
SCALE_TOLERANCE == 10

Variants == {"ring", "tab", "gl", "sw"}
Ctx == 0 .. (NUM_CONTEXTS - 1)
Slots == 0 .. (CACHE_SIZE - 1)

\* Intrinsic page size in points, the desktop size a fullscreen window takes,
\* and the widths a window is created with and resized to.
PageSize == [w |-> 1000, h |-> 500]
ScreenSize == [w |-> 1600, h |-> 900]
SdlWindowSize == [w |-> 1280, h |-> 720]
SdlResizeWidths == {1280, 1282, 1600}
PdfResizeWidths == {500, 502, 800}

Max(a, b) == IF a >= b THEN a ELSE b
Abs(a) == IF a >= 0 THEN a ELSE 0 - a

Logged(s, e) == [s EXCEPT !.log = Append(@, e)]
Ops(l, op) == SelectSeq(l, LAMBDA e : e[1] = op)

\* g_object_unref(document) in main or free_prog_state
release_document(s) == Logged(s, <<"unref", -1>>)

\* ------------------------------------------------------------------------
\* Windows (SDL / GLFW side)

\* create_contexts (part_000, part_001): 1280x720 windows;
\* create_windows (beamview.c) and create_contexts (part_002): half the page.
InitialWindowSize(v) ==
    IF v \in {"ring", "tab"}
    THEN SdlWindowSize
    ELSE [w |-> PageSize.w \div NUM_CONTEXTS, h |-> PageSize.h]

ResizeWidths(v) == IF v \in {"ring", "tab"} THEN SdlResizeWidths ELSE PdfResizeWidths

\* SDL_GetWindowSize / glfwGetFramebufferSize of context i
WindowSize(v, s, w, i) ==
    IF v # "sw" /\ s.ctx[i].is_fullscreen
    THEN ScreenSize
    ELSE [w |-> w[i], h |-> InitialWindowSize(v).h]

compute_scale(v, s, w) ==
    LET scale_i(i) ==
            Max((WindowSize(v, s, w, i).w * 1000 * NUM_CONTEXTS) \div PageSize.w,
                (WindowSize(v, s, w, i).h * 1000) \div PageSize.h)
    IN  Max(scale_i(0), scale_i(1))

toggle_fullscreen(s, i) == [s EXCEPT !.ctx[i].is_fullscreen = ~@]

\* ------------------------------------------------------------------------
\* Events

KeyEvent(k, sh, w) == [type |-> "KEYDOWN", key |-> k, shift |-> sh, window |-> w]
WindowEvent(e, w) == [type |-> "WINDOWEVENT", event |-> e, window |-> w]
QuitEvent == [type |-> "QUIT"]

PrevKeys == {"LEFT", "UP", "PAGEUP"}
NextKeys == {"RIGHT", "DOWN", "PAGEDOWN"}

\* The events the environment posts: one key per branch of the key handlers,
\* typed into window 0.  GLFW delivers no expose and no quit event to the
\* callbacks of part_002; beamview.c tells the exposed windows apart.
Events(v) ==
    {KeyEvent("LEFT", FALSE, 0), KeyEvent("RIGHT", FALSE, 0),
     KeyEvent("q", TRUE, 0), KeyEvent("f", TRUE, 0)}
    \cup (IF v = "sw"
          THEN {WindowEvent("EXPOSED", 0), WindowEvent("EXPOSED", 1), QuitEvent}
          ELSE IF v = "gl" THEN {}
          ELSE {WindowEvent("EXPOSED", 0), QuitEvent})

IsKey(e, keys) == e.type = "KEYDOWN" /\ e.key \in keys
IsResize(e) == e.type = "WINDOWEVENT" /\ e.event \in {"RESIZED", "SIZE_CHANGED"}
IsExpose(e) == e.type = "WINDOWEVENT" /\ e.event \in {"EXPOSED", "SHOWN", "RESTORED"}

\* ------------------------------------------------------------------------
\* Ring variant, src/unnamed/part_000

EmptySlot == [page_number |-> page_number_invalid, cairo_surface |-> FALSE, scale |-> 0]
NoTexture == page_number_invalid

\* cache_slot with the modulus off by one
cache_slot_short(page) == page % (CACHE_SIZE - 1)

\* cache_slot of a ring too small to keep a page apart from its neighbours
cache_slot_single(page) == page % (CACHE_SIZE - 2)

cache_slot(page) == page % CACHE_SIZE

NoFills == [i \in Slots |-> page_number_invalid]

\* update_cache_status that looks at the previous page only
ring_update_cache_status_prev_only(s) ==
    LET curr == s.current_page
        E == s.page_cache.entries
    IN  [s EXCEPT !.page_cache.complete =
            ((curr = 0) \/ (E[cache_slot(curr - 1)].page_number = curr - 1))]

ring_update_cache_status(s) ==
    LET curr == s.current_page
        E == s.page_cache.entries
    IN  [s EXCEPT !.page_cache.complete =
            ((curr = 0) \/ (E[cache_slot(curr - 1)].page_number = curr - 1)) /\
            ((curr = s.num_pages - 1) \/ (E[cache_slot(curr + 1)].page_number = curr + 1))]

ring_invalidate_cache_slot(s, i) ==
    LET slot == s.page_cache.entries[i]
        s1 == IF slot.cairo_surface THEN Logged(s, <<"destroy", slot.page_number>>) ELSE s
    IN  [s1 EXCEPT !.page_cache.entries[i] = EmptySlot]

\* page_cache_update that reuses whatever valid entry the slot holds
ring_page_cache_update_untagged(s, page_index) ==
    LET i == cache_slot(page_index)
        s0 == [s EXCEPT !.fills[i] = page_index]
    IN  IF s.page_cache.entries[i].page_number # page_number_invalid
        THEN [st |-> s0, res |-> "CACHE_REUSED"]
        ELSE LET s2 == Logged(s0, <<"render", page_index>>)
                 s3 == [s2 EXCEPT !.page_cache.entries[i] =
                            [page_number |-> page_index, cairo_surface |-> TRUE,
                             scale |-> s.current_scale]]
             IN  [st |-> ring_update_cache_status(s3), res |-> "CACHE_UPDATED"]

\* page_cache_update that never finds its page and renders every time
ring_page_cache_update_no_reuse(s, page_index) ==
    LET i == cache_slot(page_index)
        s1 == ring_invalidate_cache_slot([s EXCEPT !.fills[i] = page_index], i)
        s2 == Logged(s1, <<"render", page_index>>)
        s3 == [s2 EXCEPT !.page_cache.entries[i] =
                   [page_number |-> page_index, cairo_surface |-> TRUE,
                    scale |-> s.current_scale]]
    IN  [st |-> ring_update_cache_status(s3), res |-> "CACHE_UPDATED"]

ring_page_cache_update(s, page_index) ==
    LET i == cache_slot(page_index)
        s0 == [s EXCEPT !.fills[i] = page_index]
    IN  IF s.page_cache.entries[i].page_number = page_index
        THEN [st |-> s0, res |-> "CACHE_REUSED"]
        ELSE LET s1 == ring_invalidate_cache_slot(s0, i)
                 s2 == Logged(s1, <<"render", page_index>>)
                 s3 == [s2 EXCEPT !.page_cache.entries[i] =
                            [page_number |-> page_index, cairo_surface |-> TRUE,
                             scale |-> s.current_scale]]
             IN  [st |-> ring_update_cache_status(s3), res |-> "CACHE_UPDATED"]

\* for (i = 0; i < CACHE_SIZE; i++) invalidate_cache_slot(&entries[i]), the
\* loop of free_page_cache and of update_scale
ring_free_page_cache(s) ==
    LET s3 == ring_invalidate_cache_slot(
                  ring_invalidate_cache_slot(ring_invalidate_cache_slot(s, 0), 1), 2)
    IN  [s3 EXCEPT !.fills = NoFills]

\* idle_update_cache that fills the previous page only
ring_idle_update_cache_prev_only(s) ==
    IF s.page_cache.complete
    THEN s
    ELSE IF s.current_page > 0
    THEN ring_page_cache_update(s, s.current_page - 1).st
    ELSE s

ring_idle_update_cache(s) ==
    IF s.page_cache.complete
    THEN s
    ELSE LET s1 == IF s.current_page > 0
                   THEN ring_page_cache_update(s, s.current_page - 1).st
                   ELSE s
         IN  IF s1.current_page < s1.num_pages - 1
             THEN ring_page_cache_update(s1, s1.current_page + 1).st
             ELSE s1

\* The state in which the event loop starts: page 0 is rendered while
\* current_scale is still 1.0, then the windows are created and the scale
\* is computed from their size.
ring_init_prog_state(n, w) ==
    LET s0 == [current_page |-> 0, num_pages |-> n, current_scale |-> 1000,
               needs_redraw |-> TRUE, running |-> TRUE,
               page_cache |-> [entries |-> [i \in Slots |-> EmptySlot], complete |-> FALSE],
               ctx |-> [i \in Ctx |-> [is_fullscreen |-> FALSE, texture |-> NoTexture]],
               log |-> <<>>, fills |-> NoFills]
        s1 == ring_page_cache_update(s0, s0.current_page).st
    IN  [s1 EXCEPT !.current_scale = compute_scale("ring", s1, w)]

ring_update_scale(s, w) ==
    LET s1 == [s EXCEPT !.current_scale = compute_scale("ring", s, w)]
        s2 == ring_free_page_cache(s1)
        s3 == ring_page_cache_update(s2, s2.current_page).st
    IN  [s3 EXCEPT !.needs_redraw = TRUE]

\* expect(entry->cairo_surface) aborts on an empty slot; the slot's surface
\* is uploaded to both windows whatever page it holds.
ring_texture_ready(s) == s.page_cache.entries[cache_slot(s.current_page)].cairo_surface

ring_update_window_textures(s) ==
    LET entry == s.page_cache.entries[cache_slot(s.current_page)]
        s1 == Logged(s, <<"present", entry.page_number>>)
    IN  [s1 EXCEPT !.ctx = [i \in Ctx |-> [@[i] EXCEPT !.texture =
                                entry.page_number]],
                   !.needs_redraw = FALSE]

\* key_handler whose next-page bound is off by one
ring_key_handler_past_end(s, event, w) ==
    IF event.key = "q" /\ event.shift
    THEN [s EXCEPT !.running = FALSE]
    ELSE IF event.key = "f" /\ event.shift
    THEN ring_update_scale(toggle_fullscreen(s, event.window), w)
    ELSE LET new_page ==
                 IF event.key \in PrevKeys /\ s.current_page > 0
                 THEN s.current_page - 1
                 ELSE IF event.key \in NextKeys /\ s.current_page < s.num_pages
                 THEN s.current_page + 1
                 ELSE s.current_page
         IN  IF new_page # s.current_page
             THEN LET r == ring_page_cache_update(s, new_page)
                      s1 == IF r.res = "CACHE_UPDATED"
                            THEN Logged(r.st, <<"warn", new_page>>)
                            ELSE r.st
                      s2 == [s1 EXCEPT !.current_page = new_page]
                  IN  [ring_update_cache_status(s2) EXCEPT !.needs_redraw = TRUE]
             ELSE s

ring_key_handler(s, event, w) ==
    IF event.key = "q" /\ event.shift
    THEN [s EXCEPT !.running = FALSE]
    ELSE IF event.key = "f" /\ event.shift
    THEN ring_update_scale(toggle_fullscreen(s, event.window), w)
    ELSE LET new_page ==
                 IF event.key \in PrevKeys /\ s.current_page > 0
                 THEN s.current_page - 1
                 ELSE IF event.key \in NextKeys /\ s.current_page < s.num_pages - 1
                 THEN s.current_page + 1
                 ELSE s.current_page
         IN  IF new_page # s.current_page
             THEN LET r == ring_page_cache_update(s, new_page)
                      s1 == IF r.res = "CACHE_UPDATED"
                            THEN Logged(r.st, <<"warn", new_page>>)
                            ELSE r.st
                      s2 == [s1 EXCEPT !.current_page = new_page]
                  IN  [ring_update_cache_status(s2) EXCEPT !.needs_redraw = TRUE]
             ELSE s

\* One case of the switch in handle_sdl_events
ring_dispatch(s, event, w) ==
    IF event.type = "QUIT"
    THEN [s EXCEPT !.running = FALSE]
    ELSE IF event.type = "KEYDOWN"
    THEN ring_key_handler(s, event, w)
    ELSE IF IsResize(event)
    THEN ring_update_scale(s, w)
    ELSE IF IsExpose(event)
    THEN [s EXCEPT !.needs_redraw = TRUE]
    ELSE s

\* free_prog_state: free_page_cache, the windows, g_object_unref(document)
ring_free_prog_state(s) == release_document(ring_free_page_cache(s))

\* ------------------------------------------------------------------------
\* Full tables (part_001, part_002) and sliding window (beamview.c): a cache
\* entry is the rendering of page page_index at the scale it was made with;
\* NULL is the null pointer.

NULL == [page_index |-> page_number_invalid, scale |-> 0]

\* create_cache_entry renders the page at state->current_scale
NewEntry(s, page_index) == [page_index |-> page_index, scale |-> s.current_scale]

\* p = e for a pointer variable p: a live entry no one else points to is lost
Assigned(s, old) ==
    IF old # NULL THEN Logged(s, <<"leak", old.page_index>>) ELSE s

Pages(s) == 0 .. (s.num_pages - 1)

\* The scan that does not step over pages that have an entry
FirstFrom_no_skip(i, n, entries) == i

RECURSIVE FirstFrom(_, _, _)
\* while (i < num_pages && cache_entries[i]) i++;
FirstFrom(i, n, entries) ==
    IF i < n /\ entries[i] # NULL THEN FirstFrom(i + 1, n, entries) ELSE i

\* free_all_cache_entries that frees the entries and keeps the pointers
free_all_cache_entries_dangling(s) ==
    LET live == SelectSeq([k \in 1 .. s.num_pages |-> k - 1],
                          LAMBDA i : s.cache_entries[i] # NULL)
    IN  [s EXCEPT !.log = @ \o [k \in 1 .. Len(live) |-> <<"destroy", live[k]>>]]

\* free_all_cache_entries of part_001 and part_002
free_all_cache_entries(s) ==
    LET live == SelectSeq([k \in 1 .. s.num_pages |-> k - 1],
                          LAMBDA i : s.cache_entries[i] # NULL)
    IN  [s EXCEPT !.log = @ \o [k \in 1 .. Len(live) |-> <<"destroy", live[k]>>],
                  !.cache_entries = [i \in Pages(s) |-> NULL]]

\* ------------------------------------------------------------------------
\* Cursor full table, src/unnamed/part_001

tab_create_cache_entry(s, page_index) ==
    LET s1 == Logged(s, <<"render", page_index>>)
        s2 == Assigned(s1, s.cache_entries[page_index])
    IN  [s2 EXCEPT !.cache_entries[page_index] = NewEntry(s, page_index)]

tab_cache_complete(s) == s.next_cache_index = s.num_pages

tab_cache_one_slide(s) ==
    IF tab_cache_complete(s)
    THEN s
    ELSE LET i == FirstFrom(s.next_cache_index, s.num_pages, s.cache_entries)
         IN  IF i < s.num_pages
             THEN [tab_create_cache_entry(s, i) EXCEPT !.next_cache_index = i + 1]
             ELSE s

\* update_window_textures that leaves needs_redraw set
tab_update_window_textures_stays_dirty(s) ==
    LET entry == s.cache_entries[s.current_page]
        s1 == Logged(s, <<"present", entry.page_index>>)
    IN  [s1 EXCEPT !.ctx = [i \in Ctx |-> [@[i] EXCEPT !.texture = entry.page_index]]]

tab_update_window_textures(s) ==
    LET entry == s.cache_entries[s.current_page]
        s1 == Logged(s, <<"present", entry.page_index>>)
    IN  [s1 EXCEPT !.ctx = [i \in Ctx |-> [@[i] EXCEPT !.texture = entry.page_index]],
                   !.needs_redraw = FALSE]

\* The state in which the event loop starts (init_prog_state and main): the
\* scale is computed, page 0 is rendered and presented.
tab_init_prog_state(n, w) ==
    LET s0 == [current_page |-> 0, num_pages |-> n, current_scale |-> 1000,
               next_cache_index |-> 0, needs_redraw |-> FALSE, running |-> TRUE,
               cache_entries |-> [i \in 0 .. (n - 1) |-> NULL],
               ctx |-> [i \in Ctx |-> [is_fullscreen |-> FALSE, texture |-> NoTexture]],
               log |-> <<>>, fills |-> NoFills]
        s1 == [s0 EXCEPT !.current_scale = compute_scale("tab", s0, w)]
    IN  tab_update_window_textures(tab_create_cache_entry(s1, s1.current_page))

\* update_scale that empties the table and leaves the fill cursor where it was
tab_update_scale_keeps_cursor(s, w) ==
    LET new_scale == compute_scale("tab", s, w)
    IN  IF Abs(new_scale - s.current_scale) > SCALE_TOLERANCE
        THEN LET s1 == [s EXCEPT !.current_scale = new_scale]
                 s2 == free_all_cache_entries(s1)
                 s3 == tab_create_cache_entry(s2, s2.current_page)
             IN  [s3 EXCEPT !.needs_redraw = TRUE]
        ELSE s

tab_update_scale(s, w) ==
    LET new_scale == compute_scale("tab", s, w)
    IN  IF Abs(new_scale - s.current_scale) > SCALE_TOLERANCE
        THEN LET s1 == [s EXCEPT !.current_scale = new_scale]
                 s2 == [free_all_cache_entries(s1) EXCEPT !.next_cache_index = 0]
                 s3 == tab_create_cache_entry(s2, s2.current_page)
             IN  [s3 EXCEPT !.needs_redraw = TRUE]
        ELSE s

tab_key_handler(s, event, w) ==
    IF event.key = "q" /\ event.shift
    THEN [s EXCEPT !.running = FALSE]
    ELSE IF event.key = "f" /\ event.shift
    THEN tab_update_scale(toggle_fullscreen(s, event.window), w)
    ELSE LET new_page ==
                 IF event.key \in PrevKeys /\ s.current_page > 0
                 THEN s.current_page - 1
                 ELSE IF event.key \in NextKeys /\ s.current_page < s.num_pages - 1
                 THEN s.current_page + 1
                 ELSE s.current_page
         IN  IF new_page # s.current_page
             THEN LET s1 == IF s.cache_entries[new_page] = NULL
                            THEN tab_create_cache_entry(
                                     Logged(s, <<"warn", new_page>>), new_page)
                            ELSE s
                  IN  [s1 EXCEPT !.current_page = new_page, !.needs_redraw = TRUE]
             ELSE s

\* One case of the switch in handle_sdl_events
tab_dispatch(s, event, w) ==
    IF event.type = "QUIT"
    THEN [s EXCEPT !.running = FALSE]
    ELSE IF event.type = "KEYDOWN"
    THEN tab_key_handler(s, event, w)
    ELSE IF IsResize(event)
    THEN tab_update_scale(s, w)
    ELSE IF IsExpose(event)
    THEN [s EXCEPT !.needs_redraw = TRUE]
    ELSE s

\* The loop's back edge: while (running), then SDL_WaitEvent(NULL) once the
\* cursor has reached the end of the table.
tab_loop_top(s) ==
    IF ~s.running THEN "exit"
    ELSE IF tab_cache_complete(s) THEN "wait"
    ELSE "poll"

\* ------------------------------------------------------------------------
\* GLFW full table, src/unnamed/part_002

gl_create_cache_entry(s, page_index) ==
    LET s1 == Logged(s, <<"render", page_index>>)
        s2 == Assigned(s1, s.cache_entries[page_index])
    IN  [s2 EXCEPT !.cache_entries[page_index] = NewEntry(s, page_index)]

gl_cache_one_slide(s) ==
    IF s.cache_complete
    THEN s
    ELSE LET i == FirstFrom(0, s.num_pages, s.cache_entries)
         IN  IF i < s.num_pages
             THEN [gl_create_cache_entry(s, i) EXCEPT !.cache_complete = FALSE]
             ELSE [s EXCEPT !.cache_complete = TRUE]

\* present_texture of every window with the current page's textures
gl_update_window_textures(s) ==
    Logged(s, <<"present", s.cache_entries[s.current_page].page_index>>)

gl_present_if_cached(s) ==
    IF s.cache_entries[s.current_page] # NULL THEN gl_update_window_textures(s) ELSE s

\* The state in which the loop of handle_glfw_events starts: main computes
\* the scale, handle_glfw_events renders and presents the first page.
gl_init_prog_state(n, w) ==
    LET s0 == [current_page |-> 0, num_pages |-> n, current_scale |-> 1000,
               cache_complete |-> FALSE,
               cache_entries |-> [i \in 0 .. (n - 1) |-> NULL],
               ctx |-> [i \in Ctx |-> [is_fullscreen |-> FALSE, should_close |-> FALSE]],
               log |-> <<>>, fills |-> NoFills]
        s1 == [s0 EXCEPT !.current_scale = compute_scale("gl", s0, w)]
    IN  gl_present_if_cached(gl_create_cache_entry(s1, s1.current_page))

gl_update_scale(s, w) ==
    LET new_scale == compute_scale("gl", s, w)
    IN  IF Abs(new_scale - s.current_scale) > SCALE_TOLERANCE
        THEN LET s1 == [s EXCEPT !.current_scale = new_scale]
                 s2 == [free_all_cache_entries(s1) EXCEPT !.cache_complete = FALSE]
             IN  gl_create_cache_entry(s2, s2.current_page)
        ELSE s

gl_key_callback(s, event, w) ==
    IF event.key = "q" /\ event.shift
    THEN [s EXCEPT !.ctx = [i \in Ctx |-> [@[i] EXCEPT !.should_close = TRUE]]]
    ELSE IF event.key = "f" /\ event.shift
    THEN gl_update_scale(toggle_fullscreen(s, event.window), w)
    ELSE LET new_page ==
                 IF event.key \in PrevKeys /\ s.current_page > 0
                 THEN s.current_page - 1
                 ELSE IF event.key \in NextKeys /\ s.current_page < s.num_pages - 1
                 THEN s.current_page + 1
                 ELSE s.current_page
         IN  IF new_page # s.current_page
             THEN LET s1 == IF s.cache_entries[new_page] = NULL
                            THEN gl_create_cache_entry(
                                     Logged(s, <<"warn", new_page>>), new_page)
                            ELSE s
                  IN  [s1 EXCEPT !.current_page = new_page]
             ELSE s

\* key_callback or framebuffer_size_callback, as GLFW calls them
gl_dispatch(s, event, w) ==
    IF event.type = "KEYDOWN"
    THEN gl_key_callback(s, event, w)
    ELSE IF IsResize(event)
    THEN gl_update_scale(s, w)
    ELSE s

\* while (!glfwWindowShouldClose(ctx[0].window)), then the branch on
\* state->cache_complete
gl_loop_top(s) ==
    IF s.ctx[0].should_close THEN "exit"
    ELSE IF s.cache_complete THEN "wait"
    ELSE "poll"

\* ------------------------------------------------------------------------
\* Sliding window, src/beamview.c.  A texture handle names the entry that
\* owns it; live is false once SDL_DestroyTexture was called on it.  Every
\* create_cache_entry may fail (ok = FALSE) and return NULL.

NoTexHandle == [page_index |-> page_number_invalid, scale |-> 0, live |-> FALSE]

EmptyCache == [prev |-> NULL, cur |-> NULL, next |-> NULL]

sw_create_cache_entry(s, page_index, ok) ==
    [st |-> Logged(s, <<"render", page_index>>),
     entry |-> IF ok THEN NewEntry(s, page_index) ELSE NULL]

sw_destroy_texture(h, entry) ==
    IF h.page_index = entry.page_index /\ h.scale = entry.scale
    THEN [h EXCEPT !.live = FALSE]
    ELSE h

sw_free_cache_entry(s, entry) ==
    IF entry = NULL
    THEN s
    ELSE [Logged(s, <<"destroy", entry.page_index>>)
             EXCEPT !.left = sw_destroy_texture(@, entry),
                    !.right = sw_destroy_texture(@, entry)]

sw_init_cache_for_page(s, current_page, ok) ==
    LET s1 == sw_free_cache_entry(s, s.cache.prev)
        s2 == sw_free_cache_entry(s1, s.cache.cur)
        s3 == sw_free_cache_entry(s2, s.cache.next)
        r == sw_create_cache_entry([s3 EXCEPT !.cache = EmptyCache], current_page, ok)
    IN  [r.st EXCEPT !.cache.cur = r.entry]

\* update_cache without the test of cache->cur
sw_update_cache_no_guard(s, ok1, ok2) ==
    LET s1 == IF s.current_page > 0 /\ s.cache.prev = NULL
              THEN LET r == sw_create_cache_entry(s, s.current_page - 1, ok1)
                   IN  [r.st EXCEPT !.cache.prev = r.entry]
              ELSE s
    IN  IF s1.current_page < s1.num_pages - 1 /\ s1.cache.next = NULL
        THEN LET r == sw_create_cache_entry(s1, s1.current_page + 1, ok2)
             IN  [r.st EXCEPT !.cache.next = r.entry]
        ELSE s1

\* update_cache that fills the previous page only
sw_update_cache_prev_only(s, ok1, ok2) ==
    IF s.cache.cur = NULL
    THEN s
    ELSE IF s.current_page > 0 /\ s.cache.prev = NULL
    THEN LET r == sw_create_cache_entry(s, s.current_page - 1, ok1)
         IN  [r.st EXCEPT !.cache.prev = r.entry]
    ELSE s

\* update_cache that does not look whether a neighbour is already there
sw_update_cache_unchecked(s, ok1, ok2) ==
    IF s.cache.cur = NULL
    THEN s
    ELSE LET s1 == IF s.current_page > 0
                   THEN LET r == sw_create_cache_entry(s, s.current_page - 1, ok1)
                        IN  [r.st EXCEPT !.cache.prev = r.entry]
                   ELSE s
         IN  IF s1.current_page < s1.num_pages - 1
             THEN LET r == sw_create_cache_entry(s1, s1.current_page + 1, ok2)
                  IN  [r.st EXCEPT !.cache.next = r.entry]
             ELSE s1

sw_update_cache(s, ok1, ok2) ==
    IF s.cache.cur = NULL
    THEN s
    ELSE LET s1 == IF s.current_page > 0 /\ s.cache.prev = NULL
                   THEN LET r == sw_create_cache_entry(s, s.current_page - 1, ok1)
                        IN  [r.st EXCEPT !.cache.prev = r.entry]
                   ELSE s
         IN  IF s1.current_page < s1.num_pages - 1 /\ s1.cache.next = NULL
             THEN LET r == sw_create_cache_entry(s1, s1.current_page + 1, ok2)
                  IN  [r.st EXCEPT !.cache.next = r.entry]
             ELSE s1

\* update_cache_on_page_change that moves the hit entry to cur and leaves
\* the other two fields as they were
sw_update_cache_on_page_change_no_shift(s, new_page, ok) ==
    IF s.cache.cur # NULL /\ s.cache.cur.page_index = new_page
    THEN s
    ELSE IF s.cache.next # NULL /\ s.cache.next.page_index = new_page
    THEN [s EXCEPT !.cache.cur = s.cache.next]
    ELSE IF s.cache.prev # NULL /\ s.cache.prev.page_index = new_page
    THEN [s EXCEPT !.cache.cur = s.cache.prev]
    ELSE sw_init_cache_for_page(Logged(s, <<"warn", new_page>>), new_page, ok)

\* update_cache_on_page_change that keeps the old current entry as the
\* neighbour it is when the new page has to be rendered
sw_update_cache_on_page_change_keeps_old(s, new_page, ok) ==
    IF s.cache.cur # NULL /\ s.cache.cur.page_index = new_page
    THEN s
    ELSE IF s.cache.next # NULL /\ s.cache.next.page_index = new_page
    THEN [sw_free_cache_entry(s, s.cache.prev) EXCEPT
             !.cache = [prev |-> s.cache.cur, cur |-> s.cache.next, next |-> NULL]]
    ELSE IF s.cache.prev # NULL /\ s.cache.prev.page_index = new_page
    THEN [sw_free_cache_entry(s, s.cache.next) EXCEPT
             !.cache = [next |-> s.cache.cur, cur |-> s.cache.prev, prev |-> NULL]]
    ELSE LET s1 == Logged(s, <<"warn", new_page>>)
             r == sw_create_cache_entry(s1, new_page, ok)
             old == s.cache.cur
         IN  IF old # NULL /\ old.page_index < new_page
             THEN [sw_free_cache_entry(r.st, s.cache.prev) EXCEPT
                      !.cache = [prev |-> old, cur |-> r.entry, next |-> NULL]]
             ELSE sw_init_cache_for_page(s1, new_page, ok)

sw_update_cache_on_page_change(s, new_page, ok) ==
    IF s.cache.cur # NULL /\ s.cache.cur.page_index = new_page
    THEN s
    ELSE IF s.cache.next # NULL /\ s.cache.next.page_index = new_page
    THEN [sw_free_cache_entry(s, s.cache.prev) EXCEPT
             !.cache = [prev |-> s.cache.cur, cur |-> s.cache.next, next |-> NULL]]
    ELSE IF s.cache.prev # NULL /\ s.cache.prev.page_index = new_page
    THEN [sw_free_cache_entry(s, s.cache.next) EXCEPT
             !.cache = [next |-> s.cache.cur, cur |-> s.cache.prev, prev |-> NULL]]
    ELSE sw_init_cache_for_page(Logged(s, <<"warn", new_page>>), new_page, ok)

sw_apply_cache_entry_to_state(s, entry) ==
    LET h == [page_index |-> entry.page_index, scale |-> entry.scale, live |-> TRUE]
    IN  [s EXCEPT !.left = h, !.right = h]

\* present_texture: nothing for a NULL texture; a destroyed texture is used
\* all the same.
sw_present_texture(s, h) ==
    IF h = NoTexHandle
    THEN s
    ELSE LET s1 == IF h.live THEN s ELSE Logged(s, <<"use_after_free", h.page_index>>)
         IN  Logged(s1, <<"present", h.page_index>>)

sw_apply_and_present(s) ==
    LET s1 == sw_apply_cache_entry_to_state(s, s.cache.cur)
    IN  sw_present_texture(sw_present_texture(s1, s1.left), s1.right)

\* The state in which the loop of handle_sdl_events starts: main computes
\* the scale, handle_sdl_events renders page 0 and presents it.
sw_init_prog_state(n, w, ok) ==
    LET s0 == [current_page |-> 0, num_pages |-> n, current_scale |-> 1000,
               running |-> TRUE, pending_quit |-> FALSE,
               cache |-> EmptyCache, left |-> NoTexHandle, right |-> NoTexHandle,
               log |-> <<>>, fills |-> NoFills]
        s1 == [s0 EXCEPT !.current_scale = compute_scale("sw", s0, w)]
        s2 == sw_init_cache_for_page(s1, 0, ok)
    IN  IF s2.cache.cur # NULL THEN sw_apply_and_present(s2) ELSE s2

\* The key handling in which only q touches pending_quit
sw_key_down_stays_armed(s, event, ok) ==
    IF event.key = "q"
    THEN IF s.pending_quit
         THEN [s EXCEPT !.running = FALSE]
         ELSE [s EXCEPT !.pending_quit = TRUE]
    ELSE LET new_page ==
                 IF event.key \in PrevKeys
                 THEN (IF s.current_page > 0 THEN s.current_page - 1 ELSE s.current_page)
                 ELSE IF event.key \in NextKeys
                 THEN (IF s.current_page < s.num_pages - 1
                       THEN s.current_page + 1 ELSE s.current_page)
                 ELSE s.current_page
         IN  IF new_page # s.current_page
             THEN LET s1 == sw_update_cache_on_page_change(
                                [s EXCEPT !.current_page = new_page], new_page, ok)
                  IN  IF s1.cache.cur # NULL
                      THEN sw_apply_and_present(s1)
                      ELSE Logged(s1, <<"error", new_page>>)
             ELSE s

sw_key_down(s, event, ok) ==
    IF event.key = "q"
    THEN IF s.pending_quit
         THEN [s EXCEPT !.running = FALSE]
         ELSE [s EXCEPT !.pending_quit = TRUE]
    ELSE LET s0 == [s EXCEPT !.pending_quit = FALSE]
             new_page ==
                 IF event.key \in PrevKeys
                 THEN (IF s.current_page > 0 THEN s.current_page - 1 ELSE s.current_page)
                 ELSE IF event.key \in NextKeys
                 THEN (IF s.current_page < s.num_pages - 1
                       THEN s.current_page + 1 ELSE s.current_page)
                 ELSE s.current_page
         IN  IF new_page # s.current_page
             THEN LET s1 == sw_update_cache_on_page_change(
                                [s0 EXCEPT !.current_page = new_page], new_page, ok)
                  IN  IF s1.cache.cur # NULL
                      THEN sw_apply_and_present(s1)
                      ELSE Logged(s1, <<"error", new_page>>)
             ELSE s0

sw_resized(s, w, ok) ==
    LET new_scale == compute_scale("sw", s, w)
    IN  IF Abs(new_scale - s.current_scale) > SCALE_TOLERANCE
        THEN LET s1 == sw_init_cache_for_page(
                           [s EXCEPT !.current_scale = new_scale], s.current_page, ok)
             IN  IF s1.cache.cur # NULL THEN sw_apply_and_present(s1) ELSE s1
        ELSE s

\* One case of the switch in handle_sdl_events
sw_dispatch(s, event, w, ok) ==
    IF event.type = "QUIT"
    THEN [s EXCEPT !.running = FALSE]
    ELSE IF event.type = "KEYDOWN"
    THEN sw_key_down(s, event, ok)
    ELSE IF event.type = "WINDOWEVENT" /\ event.event = "RESIZED"
    THEN sw_resized(s, w, ok)
    ELSE IF IsExpose(event)
    THEN (IF event.window = 0 THEN sw_present_texture(s, s.left)
          ELSE IF event.window = 1 THEN sw_present_texture(s, s.right)
          ELSE s)
    ELSE s

sw_loop_top(s) == IF s.running THEN "poll" ELSE "exit"

\* The frees after the loop of handle_sdl_events
sw_free_cache(s) ==
    LET s1 == sw_free_cache_entry(s, s.cache.prev)
        s2 == sw_free_cache_entry(s1, s.cache.cur)
    IN  [sw_free_cache_entry(s2, s.cache.next) EXCEPT !.cache = EmptyCache]

\* ------------------------------------------------------------------------
\* Event loop of part_000 (handle_sdl_events, then free_prog_state)

Start == ps @@ [log |-> <<>>, fills |-> fills]

Commit(s) ==
    \E t \in {s} :
        /\ ps' = [f \in DOMAIN ps |-> t[f]]
        /\ log' = t.log
        /\ fills' = t.fills

\* The ring's idle fill has reported complete and neither update_scale nor
\* a navigation miss has happened since.
ring_invalidates_or_misses(s, event) ==
    \/ IsResize(event)
    \/ event.type = "KEYDOWN" /\ event.key = "f" /\ event.shift
    \/ /\ event.type = "KEYDOWN"
       /\ ~(event.key = "q" /\ event.shift)
       /\ \/ /\ event.key \in PrevKeys /\ s.current_page > 0
             /\ s.page_cache.entries[cache_slot(s.current_page - 1)].page_number
                    # s.current_page - 1
          \/ /\ event.key \in NextKeys /\ s.current_page < s.num_pages - 1
             /\ s.page_cache.entries[cache_slot(s.current_page + 1)].page_number
                    # s.current_page + 1

\* The loop's back edge: while (running), then SDL_WaitEvent(NULL) when
\* nothing is to be drawn and the cache is complete.
\* The back edge without the test of needs_redraw
ring_loop_top_ignores_redraw(s) ==
    IF ~s.running THEN "exit"
    ELSE IF s.page_cache.complete THEN "wait"
    ELSE "poll"

ring_loop_top(s) ==
    IF ~s.running THEN "exit"
    ELSE IF ~s.needs_redraw /\ s.page_cache.complete THEN "wait"
    ELSE "poll"

\* while (SDL_PollEvent(&event)) switch (event.type); SDL_WaitEvent returns
\* as soon as an event is pending.
ring_PollEvent ==
    /\ variant = "ring" /\ pc \in {"wait", "poll"} /\ queue # <<>>
    /\ Commit(ring_dispatch(Start, Head(queue), win))
    /\ queue' = Tail(queue)
    /\ pc' = "poll"
    /\ quiet' = (quiet /\ ~ring_invalidates_or_misses(ps, Head(queue)))
    /\ UNCHANGED <<variant, win>>

\* SDL_PollEvent found nothing pending: if (state->needs_redraw)
\* update_window_textures(state); then the loop's back edge.
ring_Redraw ==
    /\ variant = "ring" /\ pc = "poll" /\ queue = <<>> /\ ps.needs_redraw
    /\ IF ring_texture_ready(ps)
       THEN /\ Commit(ring_update_window_textures(Start))
            /\ pc' = ring_loop_top(ps')
       ELSE UNCHANGED <<ps, fills>> /\ log' = <<>> /\ pc' = "aborted"
    /\ UNCHANGED <<variant, win, queue, quiet>>

\* ... else idle_update_cache(state);
ring_Idle ==
    /\ variant = "ring" /\ pc = "poll" /\ queue = <<>> /\ ~ps.needs_redraw
    /\ Commit(ring_idle_update_cache(Start))
    /\ pc' = ring_loop_top(ps')
    /\ quiet' = (quiet \/ (~ps.page_cache.complete /\ ps'.page_cache.complete))
    /\ UNCHANGED <<variant, win, queue>>

ring_Exit ==
    /\ variant = "ring" /\ pc = "exit"
    /\ Commit(ring_free_prog_state(Start))
    /\ pc' = "done"
    /\ UNCHANGED <<variant, win, queue, quiet>>

\* ------------------------------------------------------------------------
\* Event loop of part_001 (handle_sdl_events, then the teardown in main)

tab_PollEvent ==
    /\ variant = "tab" /\ pc \in {"wait", "poll"} /\ queue # <<>>
    /\ Commit(tab_dispatch(Start, Head(queue), win))
    /\ queue' = Tail(queue)
    /\ pc' = "poll"
    /\ UNCHANGED <<variant, win, quiet>>

tab_Redraw ==
    /\ variant = "tab" /\ pc = "poll" /\ queue = <<>> /\ ps.needs_redraw
    /\ IF ps.cache_entries[ps.current_page] # NULL
       THEN /\ Commit(tab_update_window_textures(Start))
            /\ pc' = tab_loop_top(ps')
       ELSE UNCHANGED <<ps, fills>> /\ log' = <<>> /\ pc' = "aborted"
    /\ UNCHANGED <<variant, win, queue, quiet>>

tab_Idle ==
    /\ variant = "tab" /\ pc = "poll" /\ queue = <<>> /\ ~ps.needs_redraw
    /\ Commit(tab_cache_one_slide(Start))
    /\ pc' = tab_loop_top(ps')
    /\ UNCHANGED <<variant, win, queue, quiet>>

tab_Exit ==
    /\ variant = "tab" /\ pc = "exit"
    /\ Commit(release_document(free_all_cache_entries(Start)))
    /\ pc' = "done"
    /\ UNCHANGED <<variant, win, queue, quiet>>

\* ------------------------------------------------------------------------
\* Event loop of part_002 (handle_glfw_events).  glfwWaitEvents sleeps until
\* an event is pending and then, like glfwPollEvents, runs the callbacks of
\* every pending event.

gl_Callback ==
    /\ variant = "gl" /\ pc \in {"wait", "waited", "poll"} /\ queue # <<>>
    /\ Commit(gl_dispatch(Start, Head(queue), win))
    /\ queue' = Tail(queue)
    /\ pc' = IF pc = "poll" THEN "poll" ELSE "waited"
    /\ UNCHANGED <<variant, win, quiet>>

\* glfwPollEvents has returned: cache_one_slide, then present
gl_Idle ==
    /\ variant = "gl" /\ pc = "poll" /\ queue = <<>>
    /\ Commit(gl_present_if_cached(gl_cache_one_slide(Start)))
    /\ pc' = gl_loop_top(ps')
    /\ UNCHANGED <<variant, win, queue, quiet>>

\* glfwWaitEvents has returned: present
gl_Present ==
    /\ variant = "gl" /\ pc = "waited" /\ queue = <<>>
    /\ Commit(gl_present_if_cached(Start))
    /\ pc' = gl_loop_top(ps')
    /\ UNCHANGED <<variant, win, queue, quiet>>

gl_Exit ==
    /\ variant = "gl" /\ pc = "exit"
    /\ Commit(release_document(free_all_cache_entries(Start)))
    /\ pc' = "done"
    /\ UNCHANGED <<variant, win, queue, quiet>>

\* ------------------------------------------------------------------------
\* Event loop of beamview.c (handle_sdl_events)

sw_PollEvent ==
    /\ variant = "sw" /\ pc = "poll" /\ queue # <<>>
    /\ \E ok \in BOOLEAN : Commit(sw_dispatch(Start, Head(queue), win, ok))
    /\ queue' = Tail(queue)
    /\ UNCHANGED <<variant, win, pc, quiet>>

\* update_cache run without looking whether events are pending
sw_Idle_while_pending ==
    /\ variant = "sw" /\ pc = "poll"
    /\ \E ok1, ok2 \in BOOLEAN : Commit(sw_update_cache(Start, ok1, ok2))
    /\ pc' = sw_loop_top(ps')
    /\ UNCHANGED <<variant, win, queue, quiet>>

\* Nothing pending and SDL_GetTicks() - last_activity > 50: update_cache,
\* SDL_Delay(10) and the loop's back edge
sw_Idle ==
    /\ variant = "sw" /\ pc = "poll" /\ queue = <<>>
    /\ \E ok1, ok2 \in BOOLEAN : Commit(sw_update_cache(Start, ok1, ok2))
    /\ pc' = sw_loop_top(ps')
    /\ UNCHANGED <<variant, win, queue, quiet>>

\* Nothing pending and less than 50 ms since the last page change
sw_Delay ==
    /\ variant = "sw" /\ pc = "poll" /\ queue = <<>>
    /\ pc' = sw_loop_top(ps)
    /\ log' = <<>>
    /\ UNCHANGED <<variant, ps, win, queue, fills, quiet>>

sw_Exit ==
    /\ variant = "sw" /\ pc = "exit"
    /\ Commit(release_document(sw_free_cache(Start)))
    /\ pc' = "done"
    /\ UNCHANGED <<variant, win, queue, quiet>>

\* ------------------------------------------------------------------------
\* Environment

Running == pc \notin {"main", "failed", "done", "aborted"}

PostEvent ==
    /\ Running /\ Len(queue) < MaxQueue
    /\ \E e \in Events(variant) : queue' = Append(queue, e)
    /\ log' = <<>>
    /\ UNCHANGED <<variant, ps, win, pc, fills, quiet>>

\* The window manager resizes a window and SDL/GLFW queues the event.
ResizeWindow ==
    /\ Running /\ Len(queue) < MaxQueue
    /\ \E width \in ResizeWidths(variant) \ {win[0]} :
          /\ win' = [win EXCEPT ![0] = width]
          /\ queue' = Append(queue, WindowEvent("RESIZED", 0))
    /\ log' = <<>>
    /\ UNCHANGED <<variant, ps, pc, fills, quiet>>

\* ------------------------------------------------------------------------

InitialState(v, n, w, ok) ==
    IF v = "ring" THEN ring_init_prog_state(n, w)
    ELSE IF v = "tab" THEN tab_init_prog_state(n, w)
    ELSE IF v = "gl" THEN gl_init_prog_state(n, w)
    ELSE sw_init_prog_state(n, w, ok)

loop_top(v, s) ==
    IF v = "ring" THEN ring_loop_top(s)
    ELSE IF v = "tab" THEN tab_loop_top(s)
    ELSE IF v = "gl" THEN gl_loop_top(s)
    ELSE sw_loop_top(s)

\* A document of n pages is opened by variant v; ok: the first render of
\* beamview.c succeeds.
InitOf(v, n, ok) ==
    LET w == [i \in Ctx |-> InitialWindowSize(v).w]
        s == InitialState(v, n, w, ok)
    IN  /\ variant = v
        /\ win = w
        /\ ps = [f \in DOMAIN s \ {"log", "fills"} |-> s[f]]
        /\ log = s.log
        /\ fills = s.fills
        /\ queue = <<>>
        /\ pc = loop_top(v, s)
        /\ quiet = FALSE

Init == \E v \in Variants, n \in 1 .. MaxPages, ok \in BOOLEAN : InitOf(v, n, ok)

Next ==
    \/ ring_PollEvent
    \/ ring_Redraw
    \/ ring_Idle
    \/ ring_Exit
    \/ tab_PollEvent
    \/ tab_Redraw
    \/ tab_Idle
    \/ tab_Exit
    \/ gl_Callback
    \/ gl_Idle
    \/ gl_Present
    \/ gl_Exit
    \/ sw_PollEvent
    \/ sw_Idle
    \/ sw_Delay
    \/ sw_Exit
    \/ PostEvent
    \/ ResizeWindow

Spec == Init /\ [][Next]_vars

\* Events arriving behind pending ones, on short documents
MaxBacklog == 2
BacklogPages == 2

\* The keys typed behind a pending event
BehindEvents ==
    {KeyEvent("LEFT", FALSE, 0), KeyEvent("RIGHT", FALSE, 0), KeyEvent("q", TRUE, 0)}

PostBehind ==
    /\ Running /\ queue # <<>> /\ Len(queue) < MaxBacklog
    /\ \E e \in BehindEvents : queue' = Append(queue, e)
    /\ log' = <<>>
    /\ UNCHANGED <<variant, ps, win, pc, fills, quiet>>

InitBacklog ==
    \E v \in Variants, n \in 1 .. BacklogPages, ok \in BOOLEAN : InitOf(v, n, ok)

NextBacklog ==
    \/ ring_PollEvent
    \/ ring_Redraw
    \/ ring_Idle
    \/ ring_Exit
    \/ tab_PollEvent
    \/ tab_Redraw
    \/ tab_Idle
    \/ tab_Exit
    \/ gl_Callback
    \/ gl_Idle
    \/ gl_Present
    \/ gl_Exit
    \/ sw_PollEvent
    \/ sw_Idle
    \/ sw_Delay
    \/ sw_Exit
    \/ PostEvent
    \/ ResizeWindow
    \/ PostBehind

SpecBacklog == InitBacklog /\ [][NextBacklog]_vars

\* Each program on its own

InitRing == \E n \in 1 .. MaxPages : InitOf("ring", n, TRUE)

NextRing ==
    \/ ring_PollEvent
    \/ ring_Redraw
    \/ ring_Idle
    \/ ring_Exit
    \/ PostEvent
    \/ ResizeWindow

SpecRing == InitRing /\ [][NextRing]_vars

InitTab == \E n \in 1 .. MaxPages : InitOf("tab", n, TRUE)

NextTab ==
    \/ tab_PollEvent
    \/ tab_Redraw
    \/ tab_Idle
    \/ tab_Exit
    \/ PostEvent
    \/ ResizeWindow

SpecTab == InitTab /\ [][NextTab]_vars

InitGl == \E n \in 1 .. MaxPages : InitOf("gl", n, TRUE)

NextGl ==
    \/ gl_Callback
    \/ gl_Idle
    \/ gl_Present
    \/ gl_Exit
    \/ PostEvent
    \/ ResizeWindow

SpecGl == InitGl /\ [][NextGl]_vars

\* The two full-table programs
InitTable == InitTab \/ InitGl

NextTable ==
    \/ tab_PollEvent
    \/ tab_Redraw
    \/ tab_Idle
    \/ tab_Exit
    \/ gl_Callback
    \/ gl_Idle
    \/ gl_Present
    \/ gl_Exit
    \/ PostEvent
    \/ ResizeWindow

SpecTable == InitTable /\ [][NextTable]_vars

InitSw == \E n \in 1 .. MaxPages, ok \in BOOLEAN : InitOf("sw", n, ok)

NextSw ==
    \/ sw_PollEvent
    \/ sw_Idle
    \/ sw_Delay
    \/ sw_Exit
    \/ PostEvent
    \/ ResizeWindow

SpecSw == InitSw /\ [][NextSw]_vars

\* ------------------------------------------------------------------------
\* Fullscreen in part_002.  Here win holds, for each window, what GLFW
\* knows of it: position, size and whether a monitor is found for it; the
\* contexts of ps also hold the saved windowed geometry.  pc is "fs".

\* The places the user moves a window to
WindowPositions == {[x |-> 0, y |-> 0], [x |-> 40, y |-> 30]}

Geometry(g) == [x |-> g.x, y |-> g.y, w |-> g.w, h |-> g.h]

\* The widths glfwGetFramebufferSize reports
Widths(W) == [i \in Ctx |-> W[i].w]

\* toggle_fullscreen that leaves the size of the window as it is on leaving
gl_toggle_fullscreen_keeps_size(c, g) ==
    IF c.is_fullscreen
    THEN [ctx |-> [c EXCEPT !.is_fullscreen = FALSE],
          window |-> [g EXCEPT !.x = c.windowed_x, !.y = c.windowed_y]]
    ELSE LET c1 == [c EXCEPT !.windowed_x = g.x, !.windowed_y = g.y,
                             !.windowed_width = g.w, !.windowed_height = g.h]
         IN  IF g.monitor
             THEN [ctx |-> [c1 EXCEPT !.is_fullscreen = TRUE],
                   window |-> [g EXCEPT !.x = 0, !.y = 0,
                                        !.w = ScreenSize.w, !.h = ScreenSize.h]]
             ELSE [ctx |-> c1, window |-> g]

\* toggle_fullscreen of part_002 on context c whose window is g
gl_toggle_fullscreen(c, g) ==
    IF c.is_fullscreen
    THEN [ctx |-> [c EXCEPT !.is_fullscreen = FALSE],
          window |-> [g EXCEPT !.x = c.windowed_x, !.y = c.windowed_y,
                               !.w = c.windowed_width, !.h = c.windowed_height]]
    ELSE LET c1 == [c EXCEPT !.windowed_x = g.x, !.windowed_y = g.y,
                             !.windowed_width = g.w, !.windowed_height = g.h]
         IN  IF g.monitor
             THEN [ctx |-> [c1 EXCEPT !.is_fullscreen = TRUE],
                   window |-> [g EXCEPT !.x = 0, !.y = 0,
                                        !.w = ScreenSize.w, !.h = ScreenSize.h]]
             ELSE [ctx |-> c1, window |-> g]

\* key_callback on Shift+F typed into window i: toggle_fullscreen of that
\* context, then update_scale
gl_shift_f(s, W, i) ==
    LET t == gl_toggle_fullscreen(s.ctx[i], W[i])
        W1 == [W EXCEPT ![i] = t.window]
        s1 == [s EXCEPT !.ctx[i] = t.ctx]
    IN  [st |-> gl_update_scale(s1, Widths(W1)), win |-> W1]

\* struct gl_ctx after calloc and create_contexts, on a one-page document
InitFullscreen ==
    \E n \in {1}, monitor \in BOOLEAN :
        LET size == InitialWindowSize("gl")
            w == [i \in Ctx |-> size.w]
            s == gl_init_prog_state(n, w)
            s1 == [s EXCEPT !.ctx = [i \in Ctx |->
                       [is_fullscreen |-> FALSE, should_close |-> FALSE,
                        windowed_x |-> 0, windowed_y |-> 0,
                        windowed_width |-> 0, windowed_height |-> 0]]]
        IN  /\ variant = "gl"
            /\ win = [i \in Ctx |-> [x |-> 0, y |-> 0, w |-> size.w, h |-> size.h,
                                     monitor |-> monitor]]
            /\ ps = [f \in DOMAIN s1 \ {"log", "fills"} |-> s1[f]]
            /\ log = s1.log
            /\ fills = s1.fills
            /\ queue = <<>>
            /\ pc = "fs"
            /\ quiet = FALSE

gl_ShiftF ==
    /\ variant = "gl" /\ pc = "fs"
    /\ \E i \in Ctx :
           LET r == gl_shift_f(Start, win, i)
           IN  Commit(r.st) /\ win' = r.win
    /\ UNCHANGED <<variant, queue, pc, quiet>>

\* The user moves a window that is not fullscreen
gl_MoveWindow ==
    /\ variant = "gl" /\ pc = "fs"
    /\ \E i \in Ctx, p \in WindowPositions :
           /\ ~ps.ctx[i].is_fullscreen
           /\ win' = [win EXCEPT ![i].x = p.x, ![i].y = p.y]
    /\ log' = <<>>
    /\ UNCHANGED <<variant, ps, queue, pc, fills, quiet>>

\* The user resizes a window that is not fullscreen:
\* framebuffer_size_callback calls update_scale
gl_FramebufferSize ==
    /\ variant = "gl" /\ pc = "fs"
    /\ \E i \in Ctx, width \in PdfResizeWidths :
           /\ width # win[i].w
           /\ ~ps.ctx[i].is_fullscreen
           /\ win' = [win EXCEPT ![i].w = width]
           /\ Commit(gl_update_scale(Start, Widths(win')))
    /\ UNCHANGED <<variant, queue, pc, quiet>>

NextFullscreen ==
    \/ gl_ShiftF
    \/ gl_MoveWindow
    \/ gl_FramebufferSize

SpecFullscreen == InitFullscreen /\ [][NextFullscreen]_vars

\* ------------------------------------------------------------------------
\* Splitting a rendered page among the viewports.  ps holds the width of
\* the rendered page, the number of viewports and the regions made so far;
\* pc tells whether the split is under way ("split"), has produced its
\* slices ("entry"), has made create_cache_entry return NULL ("null") or
\* has ended the process ("aborted").

MaxWidth == 9
MaxCtx == 3

\* int base_split = img_width / num_ctx;
base_split(img_width, num_ctx) == img_width \div num_ctx

\* The last region of part_002 made as wide as the others
gl_region_no_remainder(img_width, num_ctx, i) ==
    [offset |-> i * base_split(img_width, num_ctx),
     size |-> base_split(img_width, num_ctx)]

\* part_002, create_cache_entry: offset and region_size of viewport i
gl_region(img_width, num_ctx, i) ==
    [offset |-> i * base_split(img_width, num_ctx),
     size |-> IF i = num_ctx - 1
              THEN img_width - base_split(img_width, num_ctx) * i
              ELSE base_split(img_width, num_ctx)]

\* part_000, update_window_textures: offset and region_width of viewport i
ring_region(img_width, num_ctx, i) ==
    LET offset == i * base_split(img_width, num_ctx)
    IN  [offset |-> offset,
         size |-> IF i = num_ctx - 1
                  THEN img_width - offset
                  ELSE base_split(img_width, num_ctx)]

\* beamview.c, create_cache_entry: left_width and right_width
sw_regions(img_width) ==
    LET left_width == img_width \div 2
        right_width == img_width - left_width
    IN  << [offset |-> 0, size |-> left_width],
           [offset |-> left_width, size |-> right_width] >>

\* expect(offset >= 0 && region_size > 0);
\* expect(offset + region_size <= cairo_width);
gl_region_expected(r, cairo_width) ==
    /\ r.offset >= 0 /\ r.size > 0
    /\ r.offset + r.size <= cairo_width

\* The bounds test of create_sdl_surface_from_cairo without region_width <= 0
sw_region_in_bounds_allows_empty(r, cairo_width) ==
    ~(r.offset < 0 \/ r.offset + r.size > cairo_width)

\* create_sdl_surface_from_cairo returns NULL unless this holds
sw_region_in_bounds(r, cairo_width) ==
    ~(r.offset < 0 \/ r.size <= 0 \/ r.offset + r.size > cairo_width)

SplitState(W, n) == [img_width |-> W, num_ctx |-> n, regions |-> <<>>]

InitSplit ==
    /\ variant \in {"ring", "gl", "sw"}
    /\ \E W \in 0 .. MaxWidth, n \in 1 .. MaxCtx :
           /\ variant = "sw" => n = NUM_CONTEXTS
           /\ ps = SplitState(W, n)
    /\ win = [i \in Ctx |-> 0]
    /\ queue = <<>>
    /\ pc = "split"
    /\ log = <<>>
    /\ fills = NoFills
    /\ quiet = FALSE

\* One turn of the loop over the viewports in create_cache_entry of part_002
gl_SplitRegion ==
    /\ variant = "gl" /\ pc = "split" /\ Len(ps.regions) < ps.num_ctx
    /\ LET i == Len(ps.regions)
           r == gl_region(ps.img_width, ps.num_ctx, i)
       IN  IF gl_region_expected(r, ps.img_width)
           THEN /\ ps' = [ps EXCEPT !.regions = Append(@, r)]
                /\ pc' = IF i + 1 = ps.num_ctx THEN "entry" ELSE "split"
           ELSE ps' = ps /\ pc' = "aborted"
    /\ UNCHANGED <<variant, win, queue, log, fills, quiet>>

\* One turn of the loop over the viewports in update_window_textures of
\* part_000; whether SDL_CreateTexture makes a texture of width 0 is SDL's
\* matter, and expect(texdata->texture) ends the process when it does not.
ring_SplitRegion ==
    /\ variant = "ring" /\ pc = "split" /\ Len(ps.regions) < ps.num_ctx
    /\ LET i == Len(ps.regions)
           r == ring_region(ps.img_width, ps.num_ctx, i)
       IN  \E created \in BOOLEAN :
               /\ r.size > 0 => created
               /\ IF created
                  THEN /\ ps' = [ps EXCEPT !.regions = Append(@, r)]
                       /\ pc' = IF i + 1 = ps.num_ctx THEN "entry" ELSE "split"
                  ELSE ps' = ps /\ pc' = "aborted"
    /\ UNCHANGED <<variant, win, queue, log, fills, quiet>>

\* create_cache_entry of beamview.c: both surfaces or NULL
sw_Split ==
    /\ variant = "sw" /\ pc = "split"
    /\ LET r == sw_regions(ps.img_width)
       IN  IF /\ sw_region_in_bounds(r[1], ps.img_width)
              /\ sw_region_in_bounds(r[2], ps.img_width)
           THEN ps' = [ps EXCEPT !.regions = r] /\ pc' = "entry"
           ELSE ps' = ps /\ pc' = "null"
    /\ UNCHANGED <<variant, win, queue, log, fills, quiet>>

NextSplit ==
    \/ gl_SplitRegion
    \/ ring_SplitRegion
    \/ sw_Split

SpecSplit == InitSplit /\ [][NextSplit]_vars

\* ------------------------------------------------------------------------
\* Properties.  A step of the program is told from a step of the environment
\* by the queue: the program takes the head event off, or runs its idle
\* branch on an empty queue; the environment only appends.

HandlesEvent ==
    /\ pc \in {"wait", "waited", "poll"}
    /\ queue # <<>>
    /\ queue' = Tail(queue)

IdleTick ==
    /\ pc = "poll"
    /\ queue = <<>>
    /\ queue' = <<>>
    /\ variant \in {"ring", "tab"} => ~ps.needs_redraw

Renders(l) == Ops(l, "render")
Warnings(l) == Ops(l, "warn")

\* lookup of page p in the cache of state s
Cached(v, s, p) ==
    IF v = "ring" THEN s.page_cache.entries[p % CACHE_SIZE].page_number = p
    ELSE IF v = "sw" THEN \E f \in {"prev", "cur", "next"} :
                              s.cache[f] # NULL /\ s.cache[f].page_index = p
    ELSE s.cache_entries[p] # NULL

\* The keys of the README's table
ReadmePrevKeys == {"LEFT", "UP", "PAGEUP"}
ReadmeNextKeys == {"RIGHT", "DOWN", "PAGEDOWN"}

\* The page a navigation key asks for
NavTarget(s, e) ==
    IF IsKey(e, ReadmePrevKeys) THEN s.current_page - 1
    ELSE IF IsKey(e, ReadmeNextKeys) THEN s.current_page + 1
    ELSE s.current_page

IsNavKey(e) == IsKey(e, ReadmePrevKeys \cup ReadmeNextKeys)

\* C1: in the ring every valid slot i holds a tag t with t mod 3 = i, and in
\* the sliding window the non-NULL entries among prev, cur and next have
\* pairwise different page_index values, in every reachable state.
C1_OneEntryPerPage ==
    /\ variant = "ring" =>
           \A i \in Slots :
               LET t == ps.page_cache.entries[i].page_number
               IN  t # page_number_invalid => t >= 0 /\ t % CACHE_SIZE = i
    /\ variant = "sw" =>
           \A f, g \in {"prev", "cur", "next"} :
               (f # g /\ ps.cache[f] # NULL /\ ps.cache[g] # NULL)
                   => ps.cache[f].page_index # ps.cache[g].page_index

\* The ring holds page 3 in slot 0 next to pages 1 and 2.
C1_Witness ==
    /\ variant = "ring"
    /\ ps.page_cache.entries[0].page_number = 3
    /\ ps.page_cache.entries[1].page_number = 1
    /\ ps.page_cache.entries[2].page_number = 2

RECURSIVE DestroyedBeforeStored(_, _)
\* Replays the renders and destructions of a step on the tags the slots had
\* before it: a render goes into an empty slot, a destruction empties the
\* slot that held the page.
DestroyedBeforeStored(tags, l) ==
    IF l = <<>> THEN TRUE
    ELSE LET e == Head(l)
             i == e[2] % CACHE_SIZE
         IN  IF e[1] = "render"
             THEN /\ tags[i] = page_number_invalid
                  /\ DestroyedBeforeStored([tags EXCEPT ![i] = e[2]], Tail(l))
             ELSE IF e[1] = "destroy"
             THEN /\ tags[i] = e[2]
                  /\ DestroyedBeforeStored([tags EXCEPT ![i] = page_number_invalid], Tail(l))
             ELSE DestroyedBeforeStored(tags, Tail(l))

C2_HitIffLastFill ==
    variant = "ring" =>
        \A p \in 0 .. (ps.num_pages - 1) :
            LET slot == ps.page_cache.entries[p % CACHE_SIZE]
            IN  /\ (slot.page_number = p) <=> (fills[p % CACHE_SIZE] = p)
                /\ slot.page_number = p => slot.cairo_surface

C2_EvictionStep ==
    variant = "ring" =>
        DestroyedBeforeStored([i \in Slots |-> ps.page_cache.entries[i].page_number], log')

\* C2: in the ring a lookup of page p hits exactly when the latest
\* page_cache_update into slot p mod 3 since the last full invalidation was
\* for p, the entry found carries page_number p, and a slot holding another
\* page of the same residue is a miss whose surface is destroyed before the
\* new render is stored.
C2_RingLookup == [](C2_HitIffLastFill) /\ [][C2_EvictionStep]_vars

\* Page 3 has just been rendered into slot 0 over page 0, destroyed first.
C2_Witness ==
    /\ variant = "ring"
    /\ \E k \in 1 .. (Len(log) - 1) :
           log[k] = <<"destroy", 0>> /\ log[k + 1] = <<"render", 3>>
    /\ ps.page_cache.entries[0].page_number = 3
    /\ fills[0] = 3

C3_NavigationStep ==
    (/\ variant \in {"ring", "tab"}
     /\ HandlesEvent
     /\ IsNavKey(Head(queue))
     /\ NavTarget(ps, Head(queue)) \in 0 .. (ps.num_pages - 1))
    => LET target == NavTarget(ps, Head(queue))
       IN  /\ ps'.current_page = target
           /\ ps'.needs_redraw
           /\ Cached(variant, ps', target)
           /\ IF Cached(variant, ps, target)
              THEN Renders(log') = <<>> /\ Warnings(log') = <<>>
              ELSE /\ Renders(log') = << <<"render", target>> >>
                   /\ Warnings(log') = << <<"warn", target>> >>

\* C3: in the ring and the cursor table a one-page move to a cached page
\* renders nothing and warns of nothing, a move to an uncached page renders
\* exactly that page once and warns; either way needs_redraw is set and the
\* new current page has an entry when the key handler returns.
C3_Navigation == [][C3_NavigationStep]_vars

\* The cursor table has just moved to page 2 before the idle fill got there.
C3_Witness ==
    /\ variant = "tab"
    /\ ps.current_page = 2
    /\ ps.needs_redraw
    /\ Renders(log) = << <<"render", 2>> >>
    /\ Warnings(log) = << <<"warn", 2>> >>

C4_RescaleStep ==
    (/\ variant \in {"tab", "gl"}
     /\ HandlesEvent
     /\ ps'.current_scale # ps.current_scale)
    => /\ ps'.current_page = ps.current_page
       /\ \A p \in 0 .. (ps'.num_pages - 1) :
              Cached(variant, ps', p) <=> (p = ps'.current_page)
       /\ ps'.cache_entries[ps'.current_page].scale = ps'.current_scale
       /\ variant = "tab" => ps'.next_cache_index = 0
       /\ variant = "gl" => ~ps'.cache_complete

\* C4: in the full tables, right after update_scale went ahead with a changed
\* scale the cache holds the current page's entry and no other, and the fill
\* progress is reset (next_cache_index = 0, cache_complete = 0).
C4_RescaleEmptiesTable == [][C4_RescaleStep]_vars

\* On page 2 of a full table of at least four pages the scale has just
\* changed: pages 0, 1 and 3 were destroyed and page 2 rendered again.
C4_Witness ==
    /\ variant = "tab"
    /\ ps.current_page = 2
    /\ ps.next_cache_index = 0
    /\ {<<"destroy", 0>>, <<"destroy", 1>>, <<"destroy", 2>>, <<"destroy", 3>>}
           \subseteq {log[k] : k \in 1 .. Len(log)}
    /\ log[Len(log)] = <<"render", 2>>
    /\ ps.cache_entries[0] = NULL /\ ps.cache_entries[3] = NULL

\* C5: in every reachable state of the ring, the one in which the event loop
\* starts included, every live entry was rendered at current_scale.
C5_EntriesAtCurrentScale ==
    variant = "ring" =>
        \A i \in Slots :
            ps.page_cache.entries[i].cairo_surface
                => ps.page_cache.entries[i].scale = ps.current_scale

RECURSIVE tab_idle_calls(_, _)
\* k calls of cache_one_slide in a row
tab_idle_calls(s, k) ==
    IF k = 0 THEN s ELSE tab_idle_calls(tab_cache_one_slide(s), k - 1)

\* C6: from every reachable state of the cursor table with K pages, K calls
\* of cache_one_slide with no event in between make cache_complete() true,
\* and none of them renders a page that has an entry.
C6_IdleFillCompletes ==
    (variant = "tab" /\ pc \in {"wait", "poll"}) =>
        LET s == tab_idle_calls(Start, ps.num_pages)
            r == Renders(s.log)
        IN  /\ tab_cache_complete(s)
            /\ \A k \in 1 .. Len(r) : ~Cached("tab", ps, r[k][2])
            /\ \A j, k \in 1 .. Len(r) : j # k => r[j] # r[k]

\* The neighbours of the current page that the cache lacks
MissingNeighbours(v, s) ==
    {p \in {s.current_page - 1, s.current_page + 1} \cap (0 .. (s.num_pages - 1)) :
        ~Cached(v, s, p)}

C7_TwoRendersStep ==
    (variant \in {"ring", "sw"} /\ IdleTick)
    => LET r == Renders(log')
       IN  /\ Len(r) <= 2
           /\ \A k \in 1 .. Len(r) : r[k][2] \in MissingNeighbours(variant, ps)
           /\ \A j, k \in 1 .. Len(r) : j # k => r[j] # r[k]

C7_OneRenderStep ==
    (variant \in {"ring", "sw"} /\ IdleTick) => Len(Renders(log')) <= 1

C8_CompleteStep ==
    variant = "ring" =>
        /\ (HandlesEvent /\ ~ring_invalidates_or_misses(ps, Head(queue)))
               => Renders(log') = <<>>
        /\ (IdleTick /\ ps.page_cache.complete) => Renders(log') = <<>>
        /\ (pc = "poll" /\ queue = <<>> /\ queue' = <<>> /\ ps.needs_redraw)
               => Renders(log') = <<>>

\* C8 as amended: in the ring a navigation that hits, an expose event and a
\* redraw render nothing, and an idle tick renders nothing while
\* page_cache.complete is true; a navigation that hits recomputes complete
\* for the new current page, and the idle ticks after it render the
\* neighbours that page lacks.
C8_NoRenderWhileComplete == [][C8_CompleteStep]_vars

C8_QuietStep == (variant = "ring" /\ quiet /\ quiet') => Renders(log') = <<>>

\* C8 as stated: once the ring's idle fill has made complete true, nothing is
\* rendered until update_scale runs or a navigation misses.
C8_NoRenderUntilInvalidated == [][C8_QuietStep]_vars

\* After the idle fill reported complete the ring moved to a cached page
\* without rendering; the windows still show the page before.
C8_Witness ==
    /\ variant = "ring"
    /\ quiet
    /\ queue = <<>> /\ log = <<>>
    /\ ps.needs_redraw
    /\ ps.ctx[0].texture \notin {ps.current_page, NoTexture}

\* The scale a resize or a fullscreen toggle recomputes
RecomputedScale(e) ==
    IF IsResize(e)
    THEN compute_scale(variant, ps, win)
    ELSE compute_scale(variant, toggle_fullscreen(ps, e.window), win)

C9_JitterStep ==
    (/\ variant \in {"ring", "tab", "sw"}
     /\ HandlesEvent
     /\ \/ IsResize(Head(queue))
        \/ variant # "sw" /\ IsKey(Head(queue), {"f"}) /\ Head(queue).shift
     /\ Abs(RecomputedScale(Head(queue)) - ps.current_scale) <= SCALE_TOLERANCE)
    => /\ ps'.current_scale = ps.current_scale
       /\ Renders(log') = <<>>
       /\ variant = "ring" => ps'.page_cache = ps.page_cache
       /\ variant = "tab" => /\ ps'.cache_entries = ps.cache_entries
                             /\ ps'.next_cache_index = ps.next_cache_index
       /\ variant = "sw" => ps'.cache = ps.cache

\* C9: in part_000, part_001 and beamview.c a resize or fullscreen toggle
\* whose recomputed scale is within 0.01 of current_scale leaves
\* current_scale, the cache and the fill progress as they are and renders
\* nothing.
C9_JitterIgnored == [][C9_JitterStep]_vars

C10_InRange == ps.current_page \in 0 .. (ps.num_pages - 1)

C10_NavigationStep ==
    (HandlesEvent /\ IsNavKey(Head(queue)))
    => IF NavTarget(ps, Head(queue)) \in 0 .. (ps.num_pages - 1)
       THEN ps'.current_page = NavTarget(ps, Head(queue))
       ELSE /\ log' = <<>>
            /\ IF variant = "sw"
               THEN ps' = [ps EXCEPT !.pending_quit = FALSE]
               ELSE ps' = ps

\* C10: in every variant current_page stays within 0 .. num_pages - 1; a
\* previous-page key on page 0 and a next-page key on the last page leave
\* current_page, the cache and the redraw flag as they are and render
\* nothing; every other navigation key moves current_page by exactly one.
C10_Navigation == [](C10_InRange) /\ [][C10_NavigationStep]_vars

\* The ring, idle on the last page with its cache complete, has just handled
\* a key that changed nothing and cleared neither running nor needs_redraw.
C10_Witness ==
    /\ variant = "ring"
    /\ pc = "poll" /\ queue = <<>> /\ log = <<>>
    /\ ps.running /\ ~ps.needs_redraw /\ ps.page_cache.complete
    /\ ps.num_pages > 1
    /\ ps.current_page = ps.num_pages - 1

C11_LoopBodyStep ==
    (/\ variant \in {"ring", "tab"}
     /\ pc = "poll" /\ queue = <<>> /\ queue' = <<>>)
    => IF ps.needs_redraw
       THEN /\ pc' # "aborted"
            /\ log' = << <<"present", ps.current_page>> >>
            /\ \A i \in Ctx : ps'.ctx[i].texture = ps.current_page
            /\ ~ps'.needs_redraw
            /\ [ps' EXCEPT !.ctx = ps.ctx, !.needs_redraw = TRUE] = ps
       ELSE /\ Ops(log', "present") = <<>>
            /\ ps'.ctx = ps.ctx
            /\ ~ps'.needs_redraw
            /\ variant = "tab" => Len(Renders(log')) <= 1

\* C11: in part_000 and part_001 the loop body after the event drain either
\* (needs_redraw set) presents the current page's entry to every window and
\* clears needs_redraw, rendering nothing, or (needs_redraw clear) runs the
\* idle fill once and presents nothing.
C11_RedrawOrIdle == [][C11_LoopBodyStep]_vars

\* The cursor table has just presented page 1 after a navigation.
C11_Witness ==
    /\ variant = "tab"
    /\ ps.current_page = 1
    /\ log = << <<"present", 1>> >>
    /\ ~ps.needs_redraw
    /\ ps.ctx[0].texture = 1 /\ ps.ctx[1].texture = 1

\* C12: part_000 and part_001 block in SDL_WaitEvent only with needs_redraw
\* clear and the cache reported complete, and then the idle fill has no page
\* left to render.
C12_BlocksOnlyWhenComplete ==
    (variant \in {"ring", "tab"} /\ pc = "wait")
    => /\ ~ps.needs_redraw
       /\ variant = "ring" =>
              /\ ps.page_cache.complete
              /\ MissingNeighbours("ring", ps) = {}
       /\ variant = "tab" =>
              /\ tab_cache_complete(ps)
              /\ \A p \in 0 .. (ps.num_pages - 1) : Cached("tab", ps, p)

\* The ring blocks on a middle page with both neighbours cached.
C12_Witness ==
    /\ variant = "ring"
    /\ pc = "wait"
    /\ ps.num_pages >= 3
    /\ ps.current_page = 1
    /\ Cached("ring", ps, 0) /\ Cached("ring", ps, 2)

\* The page a navigation key leads to
ClampedTarget(s, e) ==
    IF NavTarget(s, e) \in 0 .. (s.num_pages - 1) THEN NavTarget(s, e) ELSE s.current_page

C13_PendingStep ==
    queue # <<>>
    => \/ /\ queue' = Tail(queue)
          /\ pc \in {"wait", "waited", "poll"}
          /\ IsNavKey(Head(queue)) => ps'.current_page = ClampedTarget(ps, Head(queue))
          /\ (Head(queue) = QuitEvent /\ variant # "gl") => ~ps'.running
       \/ /\ Len(queue') = Len(queue) + 1
          /\ SubSeq(queue', 1, Len(queue)) = queue
          /\ ps' = ps
          /\ Renders(log') = <<>>
       \/ /\ queue' = queue
          /\ pc = "exit"
          /\ Renders(log') = <<>>

\* C13: in every variant the pending events are handled in the order they
\* arrived, and while an event is pending nothing is rendered but by the
\* handler of the event at the head of the queue; the idle fill waits for
\* the queue to drain.
C13_EventsBeforeIdleFill == [][C13_PendingStep]_vars

\* beamview.c has rendered a page for a navigation while the q typed behind
\* the key is still pending.
C13_Witness ==
    /\ variant = "sw"
    /\ queue = <<KeyEvent("q", TRUE, 0)>>
    /\ Warnings(log) # <<>>
    /\ ps.current_page = 1
    /\ ps.running

\* The sliding window holds the current page and each neighbour that exists
NeighboursReady(s) ==
    /\ s.cache.cur # NULL /\ s.cache.cur.page_index = s.current_page
    /\ s.current_page > 0 =>
           s.cache.prev # NULL /\ s.cache.prev.page_index = s.current_page - 1
    /\ s.current_page < s.num_pages - 1 =>
           s.cache.next # NULL /\ s.cache.next.page_index = s.current_page + 1

C14_AfterIdleUpdate ==
    (variant = "sw" /\ pc = "poll" /\ ps.cache.cur # NULL)
    => NeighboursReady(sw_update_cache(Start, TRUE, TRUE))

C14_ShiftStep ==
    (/\ variant = "sw"
     /\ HandlesEvent
     /\ IsNavKey(Head(queue))
     /\ NavTarget(ps, Head(queue)) \in 0 .. (ps.num_pages - 1)
     /\ NeighboursReady(ps))
    => /\ Renders(log') = <<>>
       /\ Warnings(log') = <<>>
       /\ Ops(log', "error") = <<>>
       /\ ps'.current_page = NavTarget(ps, Head(queue))
       /\ ps'.cache.cur # NULL
       /\ ps'.cache.cur.page_index = ps'.current_page
       /\ ps'.cache.cur = (IF IsKey(Head(queue), ReadmeNextKeys)
                           THEN ps.cache.next ELSE ps.cache.prev)

\* C14: in beamview.c an update_cache call whose renders succeed leaves
\* cache.prev and cache.next holding pages current-1 and current+1 wherever
\* they exist, and the next one-page navigation in either direction then
\* shifts the window without a render and without the 'Cache not ready'
\* message.
C14_NeighboursThenShift == [](C14_AfterIdleUpdate) /\ [][C14_ShiftStep]_vars

\* The window has just shifted from page 1 to page 2: page 0 was dropped,
\* nothing rendered, page 2 presented in both windows.
C14_Witness ==
    /\ variant = "sw"
    /\ ps.current_page = 2
    /\ log = << <<"destroy", 0>>, <<"present", 2>>, <<"present", 2>> >>
    /\ ps.cache.prev # NULL /\ ps.cache.prev.page_index = 1
    /\ ps.cache.next = NULL

\* The ring's loop scheduled fairly: the process keeps running, so a step of
\* the loop that is possible is eventually taken; no assumption on arrivals.
\* ring_PollEvent always takes the head event off the queue, so it is
\* enabled exactly where ring_PollEnabled holds, and its weak fairness is
\* written with that predicate in the place of ENABLED.
ring_PollEnabled == variant = "ring" /\ pc \in {"wait", "poll"} /\ queue # <<>>

ring_PollFair == []<>(~ring_PollEnabled) \/ []<><<ring_PollEvent>>_vars

SpecRingLive ==
    /\ InitRing /\ [][NextRing]_vars
    /\ WF_vars(ring_Redraw \/ ring_Idle \/ ring_Exit)
    /\ ring_PollFair

\* An input event is queued
Arrives == Len(queue') > Len(queue)

\* The ring's loop sleeps in SDL_WaitEvent with nothing left to do
ring_Blocked ==
    /\ pc = "wait" /\ queue = <<>>
    /\ ps.running
    /\ ps.page_cache.complete
    /\ ~ps.needs_redraw
    /\ MissingNeighbours("ring", ps) = {}

\* C15: in part_000, on every fair run of the loop in which events stop
\* arriving and quit was not requested, the loop ends up for good in
\* SDL_WaitEvent with every existing neighbour of current_page in the ring,
\* page_cache.complete set and needs_redraw clear.
C15_SettlesAndBlocks ==
    \/ []<><<Arrives>>_vars
    \/ <>(~ps.running)
    \/ <>[]ring_Blocked

\* The loop went to sleep on a middle page right after the idle fill
\* rendered both of its neighbours.
C15_Witness ==
    /\ variant = "ring"
    /\ ring_Blocked
    /\ ps.current_page = 1
    /\ Renders(log) = << <<"render", 0>>, <<"render", 2>> >>

table_cache_one_slide(v, s) ==
    IF v = "tab" THEN tab_cache_one_slide(s) ELSE gl_cache_one_slide(s)

RECURSIVE table_idle_calls(_, _, _)
\* k calls of cache_one_slide in a row
table_idle_calls(v, s, k) ==
    IF k = 0 THEN s ELSE table_idle_calls(v, table_cache_one_slide(v, s), k - 1)

\* The program has just opened the document
FreshStart ==
    LET s0 == InitialState(variant, ps.num_pages,
                           [i \in Ctx |-> InitialWindowSize(variant).w], TRUE)
    IN  /\ ps = [f \in DOMAIN ps |-> s0[f]]
        /\ win = [i \in Ctx |-> InitialWindowSize(variant).w]

AllCached(v, s) == \A p \in Pages(s) : Cached(v, s, p)

C16_FreshFill ==
    (variant \in {"tab", "gl"} /\ FreshStart)
    => LET n == ps.num_pages
           s == table_idle_calls(variant, [Start EXCEPT !.log = <<>>], n - 1)
       IN  /\ Cached(variant, ps, 0)
           /\ Renders(s.log) = [k \in 1 .. (n - 1) |-> <<"render", k>>]
           /\ \A p \in Pages(s) :
                  s.cache_entries[p] # NULL /\ s.cache_entries[p].page_index = p

C16_IdleStep ==
    (variant \in {"tab", "gl"} /\ IdleTick)
    => LET r == Renders(log')
       IN  /\ Len(r) <= 1
           /\ Len(r) = 1 =>
                  /\ r[1][2] \in Pages(ps)
                  /\ ~Cached(variant, ps, r[1][2])
                  /\ \A q \in 0 .. (r[1][2] - 1) : Cached(variant, ps, q)
                  /\ Cached(variant, ps', r[1][2])
           /\ \A q \in Pages(ps) : Cached(variant, ps, q) => Cached(variant, ps', q)
           /\ Ops(log', "destroy") = <<>>

C16_HitStep ==
    (/\ variant \in {"tab", "gl"}
     /\ HandlesEvent
     /\ IsNavKey(Head(queue))
     /\ AllCached(variant, ps))
    => /\ Renders(log') = <<>>
       /\ Warnings(log') = <<>>
       /\ Ops(log', "destroy") = <<>>
       /\ ps'.current_page = ClampedTarget(ps, Head(queue))
       /\ AllCached(variant, ps')

\* C16: in part_001 and part_002 an idle fill renders at most one page, the
\* lowest-index page that has no entry, and drops none, so that between two
\* invalidations its renders come in strictly increasing order; from the
\* start on an N-page document N-1 calls of cache_one_slide render pages
\* 1..N-1 in that order and leave every page with an entry; and with every
\* page cached a navigation renders nothing and prints no warning.
C16_SequentialFill ==
    [](C16_FreshFill) /\ [][C16_IdleStep /\ C16_HitStep]_vars

\* part_001 on four pages: the idle fill has gone through the whole document
\* and a navigation to page 1 has just been served from the table.
C16_Witness ==
    /\ variant = "tab"
    /\ ps.num_pages = 4
    /\ AllCached("tab", ps)
    /\ ps.next_cache_index = 4
    /\ ps.current_page = 1
    /\ ps.needs_redraw
    /\ pc = "poll" /\ queue = <<>>
    /\ log = <<>>

C17_TwoCalls(p) ==
    LET s0 == [Start EXCEPT !.log = <<>>]
        r1 == ring_page_cache_update(s0, p)
        r2 == ring_page_cache_update(r1.st, p)
        rendered == Ops(r2.st.log, "render")
    IN  /\ r2.res = "CACHE_REUSED"
        /\ r2.st = r1.st
        /\ r2.st.page_cache.entries = r1.st.page_cache.entries
        /\ r2.st.page_cache.complete = r1.st.page_cache.complete
        /\ r2.st.needs_redraw = r1.st.needs_redraw
        /\ rendered = (IF Cached("ring", ps, p) THEN <<>> ELSE << <<"render", p>> >>)
        /\ r1.res = (IF Cached("ring", ps, p) THEN "CACHE_REUSED" ELSE "CACHE_UPDATED")
        /\ Cached("ring", r2.st, p)

\* C17: in every reachable state of the ring and for every page p, a second
\* page_cache_update(p) right after the first returns CACHE_REUSED and
\* changes nothing (slots, complete, needs_redraw, no render); the two calls
\* together render p once when p had no valid entry, and not at all when it
\* had one.
C17_SecondCallReuses ==
    (variant = "ring" /\ pc \in {"wait", "poll"})
    => \A p \in Pages(ps) : C17_TwoCalls(p)

\* The ring has just rendered page 3 into slot 0 in place of page 0, on a
\* navigation from page 2: a state in which a call for page 0 renders and a
\* second call for it does not.
C17_Witness ==
    /\ variant = "ring"
    /\ ps.current_page = 3
    /\ Renders(log) = << <<"render", 3>> >>
    /\ ps.page_cache.entries[0].page_number = 3
    /\ ~Cached("ring", ps, 0)

\* The texture behind handle h exists and belongs to the current entry
LiveAndOwned(s, h) ==
    /\ h.live
    /\ s.cache.cur # NULL
    /\ s.cache.cur.page_index = h.page_index
    /\ s.cache.cur.scale = h.scale

\* C18: in beamview.c no step presents a destroyed texture, and while the
\* loop runs the handles in prog_state.left and prog_state.right, which an
\* expose, shown or restored event presents, are live textures of cache.cur.
C18_NoUseAfterFree ==
    variant = "sw"
    => /\ Ops(log, "use_after_free") = <<>>
       /\ pc = "poll" =>
              \A h \in {ps.left, ps.right} : h # NoTexHandle => LiveAndOwned(ps, h)

C19_FailedRender ==
    /\ variant = "sw"
    /\ HandlesEvent
    /\ Renders(log') # <<>>
    /\ ps'.cache.cur = NULL

C19_FailureStep ==
    C19_FailedRender
    => /\ pc' = "poll"
       /\ ps'.running = ps.running
       /\ ps'.cache = EmptyCache
       /\ Renders(log') = << <<"render", ps'.current_page>> >>
       /\ Ops(log', "present") = <<>>
       /\ IsNavKey(Head(queue)) =>
              /\ ps'.current_page = NavTarget(ps, Head(queue))
              /\ Ops(log', "error") = << <<"error", ps'.current_page>> >>

C19_NoEntryIdleStep ==
    (variant = "sw" /\ IdleTick /\ ps.cache.cur = NULL)
    => ps' = ps /\ log' = <<>>

C19_RetryStep ==
    (/\ variant = "sw"
     /\ HandlesEvent
     /\ ps.cache.cur = NULL
     /\ IsNavKey(Head(queue))
     /\ ClampedTarget(ps, Head(queue)) # ps.current_page)
    => /\ Renders(log') = << <<"render", NavTarget(ps, Head(queue))>> >>
       /\ ps'.cache.cur # NULL => ps'.cache.cur.page_index = ps'.current_page

C20_NothingToShowStep ==
    /\ variant = "gl"
    /\ IdleTick
    /\ ps'.current_page = ps.current_page
    /\ ps'.current_scale = ps.current_scale
    /\ \A k \in 1 .. Len(Renders(log')) : Renders(log')[k][2] # ps.current_page

\* C20: in part_002 a loop iteration that handled no event and at most
\* filled the entry of another page presents nothing.
C20_PresentOnlyOnChange ==
    [][C20_NothingToShowStep => Ops(log', "present") = <<>>]_vars

RECURSIVE SumSizes(_)
SumSizes(regions) ==
    IF regions = <<>> THEN 0 ELSE Head(regions).size + SumSizes(Tail(regions))

\* n slices, the first at 0, each starting where the one before ends, none
\* of negative length, together W long, laid out as the spec's formula says
Partitions(regions, W, n) ==
    /\ Len(regions) = n
    /\ regions[1].offset = 0
    /\ \A k \in 1 .. (n - 1) :
           /\ regions[k + 1].offset = regions[k].offset + regions[k].size
           /\ regions[k].offset = (k - 1) * (W \div n)
           /\ regions[k].size = W \div n
    /\ regions[n].offset = (W \div n) * (n - 1)
    /\ regions[n].size = W - (W \div n) * (n - 1)
    /\ \A k \in 1 .. n : regions[k].size >= 0
    /\ \A j, k \in 1 .. n :
           j < k => regions[j].offset + regions[j].size <= regions[k].offset
    /\ regions[n].offset + regions[n].size = W
    /\ SumSizes(regions) = W

\* C21: for the width W and the viewport count n of every state, the
\* regions of part_002 and of part_000 are n slices that are contiguous, do
\* not overlap, follow the formula and sum to W; for n = 2 they are
\* beamview.c's left = W div 2, right = W - left; and the regions a split
\* has made so far are the first of these.
C21_SlicesPartition ==
    (pc \in {"split", "entry", "null", "aborted"} /\ "img_width" \in DOMAIN ps)
    => LET W == ps.img_width
           n == ps.num_ctx
           gl == [k \in 1 .. n |-> gl_region(W, n, k - 1)]
           ring == [k \in 1 .. n |-> ring_region(W, n, k - 1)]
           all == IF variant = "gl" THEN gl
                  ELSE IF variant = "ring" THEN ring ELSE sw_regions(W)
       IN  /\ Partitions(gl, W, n)
           /\ Partitions(ring, W, n)
           /\ Partitions(sw_regions(W), W, 2)
           /\ n = 2 => gl = sw_regions(W) /\ ring = sw_regions(W)
           /\ ps.regions = SubSeq(all, 1, Len(ps.regions))
           /\ pc = "entry" => Partitions(ps.regions, W, n)

\* part_002 has split a page 7 wide among three viewports: 2, 2 and 3
C21_Witness ==
    /\ variant = "gl" /\ pc = "entry"
    /\ ps.img_width = 7 /\ ps.num_ctx = 3
    /\ ps.regions = << [offset |-> 0, size |-> 2], [offset |-> 2, size |-> 2],
                       [offset |-> 4, size |-> 3] >>

\* The page is narrower than the number of viewports and the split is over
C22_Degenerate ==
    /\ variant \in {"gl", "sw"}
    /\ "img_width" \in DOMAIN ps
    /\ ps.img_width < ps.num_ctx
    /\ pc # "split"

LiveEntries(v, s) ==
    IF v = "ring"
    THEN {s.page_cache.entries[i].page_number :
              i \in {j \in Slots : s.page_cache.entries[j].cairo_surface}}
    ELSE IF v = "sw"
    THEN {s.cache[f].page_index : f \in {g \in {"prev", "cur", "next"} : s.cache[g] # NULL}}
    ELSE {p \in Pages(s) : s.cache_entries[p] # NULL}

\* The step that follows the end of the event loop
C23_TeardownStep ==
    (pc = "exit" /\ pc' = "done")
    => LET destroyed == Ops(log', "destroy")
       IN  /\ {destroyed[k][2] : k \in 1 .. Len(destroyed)} = LiveEntries(variant, ps)
           /\ Len(destroyed) = Cardinality(LiveEntries(variant, ps))
           /\ LiveEntries(variant, ps') = {}
           /\ Len(Ops(log', "unref")) = 1

\* C23: in every variant no entry is ever lost while the program runs, the
\* step after the end of the loop destroys each entry the cache holds once
\* and leaves the cache empty, the document is released in that step, once,
\* and in no other, and nothing happens after it.
C23_TeardownReleasesAll ==
    /\ [](/\ Ops(log, "leak") = <<>>
          /\ Ops(log, "unref") # <<>> => pc = "done"
          /\ pc = "done" => LiveEntries(variant, ps) = {} /\ Len(Ops(log, "unref")) = 1)
    /\ [][C23_TeardownStep /\ pc # "done"]_vars

\* part_001 has quit a four-page document with only pages 0 and 1 rendered
C23_Witness ==
    /\ variant = "tab" /\ pc = "done"
    /\ ps.num_pages = 4
    /\ log = << <<"destroy", 0>>, <<"destroy", 1>>, <<"unref", -1>> >>

\* C24: in every reachable state of beamview.c cache.cur, when not NULL,
\* holds current_page, cache.prev holds current_page - 1 and cache.next
\* holds current_page + 1, so the cache holds no other page.
C24_WindowAroundCurrent ==
    variant = "sw"
    => /\ ps.cache.cur # NULL => ps.cache.cur.page_index = ps.current_page
       /\ ps.cache.prev # NULL => ps.cache.prev.page_index = ps.current_page - 1
       /\ ps.cache.next # NULL => ps.cache.next.page_index = ps.current_page + 1
       /\ LiveEntries("sw", ps) \subseteq
              {ps.current_page - 1, ps.current_page, ps.current_page + 1} \cap Pages(ps)

\* The window has shifted back from page 2 to page 1: page 3 was dropped,
\* page 2 is now the next entry and page 0 is not there yet.
C24_Witness ==
    /\ variant = "sw"
    /\ ps.current_page = 1
    /\ ps.cache.cur # NULL /\ ps.cache.next # NULL /\ ps.cache.prev = NULL
    /\ ps.cache.next.page_index = 2
    /\ Ops(log, "destroy") = << <<"destroy", 3>> >>

\* The head event is a key-down of q with Shift held
C25_ShiftQStep ==
    /\ variant \in {"sw", "ring"}
    /\ HandlesEvent
    /\ Head(queue).type = "KEYDOWN"
    /\ Head(queue).key = "q" /\ Head(queue).shift

\* C25: in beamview.c and in part_000 the handling of one Shift+Q key-down,
\* in whatever state, clears running, which ends the loop in that iteration.
C25_ShiftQQuits == [][C25_ShiftQStep => ~ps'.running]_vars

C26_TwoToggles(i) ==
    LET r1 == gl_shift_f(Start, win, i)
        r2 == gl_shift_f(r1.st, r1.win, i)
        toggled == [Start EXCEPT !.ctx[i] = r1.st.ctx[i]]
    IN  /\ Geometry(r2.win[i]) = Geometry(win[i])
        /\ r2.st.ctx[i].is_fullscreen = ps.ctx[i].is_fullscreen
        /\ \A j \in Ctx \ {i} : r2.win[j] = win[j] /\ r2.st.ctx[j] = ps.ctx[j]
        /\ ~ps.ctx[i].is_fullscreen =>
               /\ r1.st.ctx[i].windowed_x = win[i].x
               /\ r1.st.ctx[i].windowed_y = win[i].y
               /\ r1.st.ctx[i].windowed_width = win[i].w
               /\ r1.st.ctx[i].windowed_height = win[i].h
               /\ r1.st.ctx[i].is_fullscreen = win[i].monitor
        /\ ps.ctx[i].is_fullscreen =>
               /\ ~r1.st.ctx[i].is_fullscreen
               /\ r1.win[i].x = ps.ctx[i].windowed_x
               /\ r1.win[i].y = ps.ctx[i].windowed_y
               /\ r1.win[i].w = ps.ctx[i].windowed_width
               /\ r1.win[i].h = ps.ctx[i].windowed_height
        /\ r1.st = gl_dispatch(toggled, WindowEvent("RESIZED", i), Widths(r1.win))

\* C26: in part_002, from every state and for every window, Shift+F saves
\* the window's position and size when it enters fullscreen and sets them
\* back when it leaves, two Shift+F in a row on the same window bring its
\* position, size and is_fullscreen back to what they were and touch no
\* other window, and the state after a Shift+F is the one the resize
\* callback's update_scale gives on the toggled window.
C26_FullscreenRoundTrip ==
    (variant = "gl" /\ pc = "fs") => \A i \in Ctx : C26_TwoToggles(i)

\* Window 0 was moved and widened, went fullscreen and has just come back
\* to the saved place and size, rendering the page again at the old scale.
C26_Witness ==
    /\ variant = "gl" /\ pc = "fs"
    /\ win[0].monitor
    /\ ~ps.ctx[0].is_fullscreen
    /\ ps.ctx[0].windowed_x = 40 /\ ps.ctx[0].windowed_width = 800
    /\ win[0].x = 40 /\ win[0].w = 800
    /\ Renders(log) # <<>>
\* ------------------------------------------------------------------------
\* Start of the process: main calls init_prog_state and either leaves with
\* EXIT_FAILURE or sets up the windows and enters the event loop.

EXIT_SUCCESS == 0
EXIT_FAILURE == 1
SIGABRT == 6
ENOENT == 2
EIO == 5
EINVAL == 22

\* What the path on the command line leads to: realpath resolves it or not,
\* poppler opens it or not, the document's page count, whether page 0 can
\* be loaded, and whether beamview.c's first render succeeds.
StartupFiles ==
    [resolves : BOOLEAN, opens : BOOLEAN, n_pages : 0 .. BacklogPages,
     first_page : BOOLEAN, renders : BOOLEAN]

\* Return value of init_prog_state up to the last check it makes on the
\* document.  part_000 and part_002 do not test the first page here.
init_prog_state_accepts_empty(v, f) ==
    IF ~f.resolves THEN -ENOENT
    ELSE IF ~f.opens THEN -EIO
    ELSE IF v \in {"tab", "sw"} /\ ~f.first_page THEN -ENOENT
    ELSE 0

init_prog_state(v, f) ==
    IF ~f.resolves THEN -ENOENT
    ELSE IF ~f.opens THEN -EIO
    ELSE IF f.n_pages <= 0 THEN -EINVAL
    ELSE IF v \in {"tab", "sw"} /\ ~f.first_page THEN -ENOENT
    ELSE 0

\* expect(first_page) in part_002's init_prog_state, expect(page) in the
\* page_cache_update that part_000's init_prog_state makes for page 0.
init_expect_fails(v, f) == v \in {"ring", "gl"} /\ ~f.first_page

InitStartup ==
    \E v \in Variants, f \in StartupFiles :
        /\ variant = v
        /\ ps = [file |-> f]
        /\ win = [i \in Ctx |-> InitialWindowSize(v).w]
        /\ queue = <<>>
        /\ pc = "main"
        /\ log = <<>>
        /\ fills = NoFills
        /\ quiet = FALSE

main_Start ==
    /\ pc = "main"
    /\ LET f == ps.file
           ret == init_prog_state(variant, f)
           s == InitialState(variant, f.n_pages, win, f.renders)
       IN  IF ret < 0
           THEN /\ pc' = "failed"
                /\ log' = << <<"error", ret>> >>
                /\ UNCHANGED <<ps, fills>>
           ELSE IF init_expect_fails(variant, f)
           THEN /\ pc' = "aborted"
                /\ log' = << <<"error", -SIGABRT>> >>
                /\ UNCHANGED <<ps, fills>>
           ELSE /\ ps' = [g \in DOMAIN s \ {"log", "fills"} |-> s[g]]
                /\ log' = s.log
                /\ fills' = s.fills
                /\ pc' = loop_top(variant, s)
    /\ UNCHANGED <<variant, win, queue, quiet>>

\* Status the shell sees: main's return value (0 where main runs off its
\* end), or 128 + SIGABRT after abort().
exit_status ==
    IF pc = "failed" THEN EXIT_FAILURE
    ELSE IF pc = "aborted" THEN 128 + SIGABRT
    ELSE EXIT_SUCCESS

NextStartup ==
    \/ main_Start
    \/ ring_PollEvent
    \/ ring_Redraw
    \/ ring_Idle
    \/ ring_Exit
    \/ tab_PollEvent
    \/ tab_Redraw
    \/ tab_Idle
    \/ tab_Exit
    \/ gl_Callback
    \/ gl_Idle
    \/ gl_Present
    \/ gl_Exit
    \/ sw_PollEvent
    \/ sw_Idle
    \/ sw_Delay
    \/ sw_Exit
    \/ PostEvent
    \/ ResizeWindow

SpecStartup == InitStartup /\ [][NextStartup]_vars

\* C27: in every variant a path that does not resolve, a file poppler
\* cannot open and a document of zero pages make main report an error and
\* leave with a non-zero status, with nothing rendered, no cache entry
\* created and no step of the event loop taken afterwards; a process that
\* left through the loop's quit has status 0.
C27_Unusable(f) == ~f.resolves \/ ~f.opens \/ f.n_pages = 0

C27_StartStep ==
    (pc = "main" /\ C27_Unusable(ps.file)) =>
        /\ pc' = "failed"
        /\ Ops(log', "error") # <<>>
        /\ Renders(log') = <<>>
        /\ fills' = NoFills
        /\ ps' = ps

C27_QuitStep ==
    (pc # "done" /\ pc' = "done") =>
        /\ pc = "exit"
        /\ IF variant = "gl" THEN ps.ctx[0].should_close ELSE ~ps.running
        /\ Ops(log', "error") = <<>>

C27_ExitStatus ==
    /\ [](pc = "failed" => exit_status # 0)
    /\ [](pc = "done" => exit_status = 0)
    /\ [][C27_StartStep]_vars
    /\ [][C27_QuitStep]_vars
    /\ [][pc # "failed"]_vars

C27_Witness ==
    /\ pc = "failed"
    /\ ps.file.opens /\ ps.file.resolves /\ ps.file.n_pages = 0
    /\ log = << <<"error", -EINVAL>> >>
\* C28: in part_000, part_001 and part_002 the cache holds the current
\* page's entry whenever the loop runs, so every presentation finds it (in
\* the ring: the slot of current_page is tagged current_page and has a
\* surface) and no expect() of update_window_textures aborts; no idle tick
\* destroys or replaces the current page's entry.
HasCurrent(v, s) ==
    IF v = "ring"
    THEN LET entry == s.page_cache.entries[cache_slot(s.current_page)]
         IN  entry.page_number = s.current_page /\ entry.cairo_surface
    ELSE s.cache_entries[s.current_page] # NULL

C28_InLoop ==
    (variant \in {"ring", "tab", "gl"} /\ pc \in {"poll", "wait", "waited", "exit"})
        => HasCurrent(variant, ps)

C28_PresentStep ==
    (variant \in {"ring", "tab", "gl"} /\ Ops(log', "present") # <<>>) =>
        /\ pc' # "aborted"
        /\ HasCurrent(variant, ps')
        /\ \A k \in 1 .. Len(log') :
               log'[k][1] = "present" => log'[k][2] = ps'.current_page

C28_IdleStep ==
    (variant \in {"ring", "tab", "gl"} /\ IdleTick) =>
        /\ HasCurrent(variant, ps')
        /\ \A k \in 1 .. Len(log') :
               log'[k][1] \in {"destroy", "render"} => log'[k][2] # ps.current_page

C28_CurrentPageCached ==
    /\ [](variant \in {"ring", "tab", "gl"} => pc # "aborted")
    /\ [](C28_InLoop)
    /\ [][C28_PresentStep]_vars
    /\ [][C28_IdleStep]_vars

\* Page 3 is presented from slot 0, which it took over from page 0.
C28_Witness ==
    /\ variant = "ring"
    /\ ps.current_page = 3
    /\ ps.page_cache.entries[cache_slot(3)].page_number = 3
    /\ cache_slot(3) = cache_slot(0)
    /\ Ops(log, "present") = << <<"present", 3>> >>
\* The page the windows show is the one given to the last presentation
PresentedCurrent == \A i \in Ctx : ps.ctx[i].texture = ps.current_page

\* C29, as stated: in part_000 and part_001, whenever the loop is about to
\* wait for or poll events, needs_redraw is clear and the page last
\* presented is current_page.
C29_CleanBeforeEveryPoll ==
    (variant \in {"ring", "tab"} /\ pc \in {"wait", "poll"}) =>
        (~ps.needs_redraw /\ PresentedCurrent)

C29_BodyStep ==
    (/\ variant \in {"ring", "tab"}
     /\ pc = "poll" /\ queue = <<>> /\ queue' = <<>>)
    => (~ps'.needs_redraw /\ PresentedCurrent')

C29_ClearStep ==
    (variant \in {"ring", "tab"} /\ ps.needs_redraw /\ ~ps'.needs_redraw)
    => Ops(log', "present") = << <<"present", ps'.current_page>> >>

C29_EventStep ==
    (/\ variant \in {"ring", "tab"}
     /\ HandlesEvent
     /\ \/ ps'.current_page # ps.current_page
        \/ ps'.current_scale # ps.current_scale
        \/ IsExpose(Head(queue)))
    => ps'.needs_redraw

\* C29, amended: the loop blocks in SDL_WaitEvent only with needs_redraw
\* clear and current_page presented; every iteration of the loop body ends
\* that way; needs_redraw is set by every navigation, rescale and expose
\* event and cleared only by presenting current_page.  Polls inside the
\* event drain, and the first poll of part_000, happen with the flag set.
C29_CleanBeforeWait ==
    /\ []((variant \in {"ring", "tab"} /\ pc = "wait")
            => (~ps.needs_redraw /\ PresentedCurrent))
    /\ [][C29_BodyStep]_vars
    /\ [][C29_ClearStep]_vars
    /\ [][C29_EventStep]_vars

\* Page 1 has just been presented and the loop blocks in SDL_WaitEvent.
C29_Witness ==
    /\ variant \in {"ring", "tab"}
    /\ pc = "wait"
    /\ ps.current_page = 1
    /\ ~ps.needs_redraw
    /\ log = << <<"present", 1>> >>
\* Every neighbour of current_page that exists has its entry in its slot
ring_neighbours_valid(s) ==
    /\ s.current_page > 0 =>
           LET e == s.page_cache.entries[cache_slot(s.current_page - 1)]
           IN  e.page_number = s.current_page - 1 /\ e.cairo_surface
    /\ s.current_page < s.num_pages - 1 =>
           LET e == s.page_cache.entries[cache_slot(s.current_page + 1)]
           IN  e.page_number = s.current_page + 1 /\ e.cairo_surface

\* C30: in part_000, at the top of every iteration of the event loop (and
\* between the events of one drain) page_cache.complete is true exactly
\* when each existing neighbour of current_page has a valid entry in its
\* slot.
C30_CompleteIsExact ==
    (variant = "ring" /\ pc \in {"wait", "poll", "exit"}) =>
        (ps.page_cache.complete <=> ring_neighbours_valid(ps))

\* On page 2 of four the flag is set again after a navigation cleared it:
\* the idle fill has put page 3 into the slot page 0 held.
C30_Witness ==
    /\ variant = "ring" /\ pc = "wait"
    /\ ps.num_pages = 4 /\ ps.current_page = 2
    /\ ps.page_cache.complete
    /\ ps.page_cache.entries[cache_slot(3)].page_number = 3
    /\ Renders(log) = << <<"render", 3>> >>
\* The completion indicator of the full-table variants
table_cache_complete(v, s) ==
    IF v = "tab" THEN tab_cache_complete(s) ELSE s.cache_complete

\* C31: in part_001 every page below next_cache_index has an entry, in
\* part_001 and part_002 the completion indicator is set only while every
\* page has an entry, and a navigation key handled out of the blocking
\* wait renders nothing and warns about nothing.
C31_BelowCursorCached ==
    (variant = "tab" /\ pc \in {"wait", "poll", "exit"}) =>
        /\ ps.next_cache_index \in 0 .. ps.num_pages
        /\ \A p \in Pages(ps) : p < ps.next_cache_index => ps.cache_entries[p] # NULL

C31_IndicatorSound ==
    (variant \in {"tab", "gl"} /\ pc \in {"wait", "waited", "poll", "exit"}) =>
        /\ table_cache_complete(variant, ps) => AllCached(variant, ps)
        /\ pc = "wait" => table_cache_complete(variant, ps)

C31_WaitStep ==
    (/\ variant \in {"tab", "gl"}
     /\ pc = "wait"
     /\ HandlesEvent
     /\ IsNavKey(Head(queue)))
    => /\ Renders(log') = <<>>
       /\ Warnings(log') = <<>>
       /\ Cached(variant, ps', ps'.current_page)

C31_NeverOverReports ==
    /\ [](C31_BelowCursorCached)
    /\ [](C31_IndicatorSound)
    /\ [][C31_WaitStep]_vars

\* part_001 has filled its table after a rescale on page 1 and blocks.
C31_Witness ==
    /\ variant = "tab" /\ pc = "wait"
    /\ ps.num_pages = 3 /\ ps.current_page = 1
    /\ ps.next_cache_index = 3
    /\ win[0] # InitialWindowSize("tab").w
    /\ AllCached("tab", ps)
\* Replays the renders and destructions of a log on the set of pages that
\* had a live entry before it: a render of a page that has a live entry
\* would put a second entry where the first one is, a destruction needs a
\* live entry, and a pointer assigned over a live entry loses it.
RECURSIVE Account(_, _)
Account(live, l) ==
    IF l = <<>> THEN [ok |-> TRUE, live |-> live]
    ELSE LET e == Head(l)
         IN  IF e[1] = "render"
             THEN IF e[2] \in live
                  THEN [ok |-> FALSE, live |-> live]
                  ELSE Account(live \cup {e[2]}, Tail(l))
             ELSE IF e[1] = "destroy"
             THEN IF e[2] \notin live
                  THEN [ok |-> FALSE, live |-> live]
                  ELSE Account(live \ {e[2]}, Tail(l))
             ELSE IF e[1] = "leak"
             THEN [ok |-> FALSE, live |-> live]
             ELSE Account(live, Tail(l))

\* The entries after the log are those before it, less the destroyed, plus
\* the rendered; in beamview.c a render may fail and add nothing.
NoEntryLost(v, before, l, after) ==
    LET r == Account(before, l)
        rendered == {Renders(l)[k][2] : k \in 1 .. Len(Renders(l))}
    IN  /\ r.ok
        /\ IF v = "sw"
           THEN after \subseteq r.live /\ (r.live \ after) \subseteq rendered
           ELSE after = r.live

C32_Step == NoEntryLost(variant, LiveEntries(variant, ps), log', LiveEntries(variant, ps'))

\* in the ring, each render of a step goes into a slot that is empty then
C32_RingSlotStep ==
    variant = "ring" =>
        /\ DestroyedBeforeStored([i \in Slots |-> ps.page_cache.entries[i].page_number], log')
        /\ \A i \in Slots : ps'.page_cache.entries[i].cairo_surface
                              <=> ps'.page_cache.entries[i].page_number # page_number_invalid

\* the renders before the loop starts go into an empty cache
C32_InitialRender ==
    (ps.current_page = 0 /\ queue = <<>>) => \A ok \in BOOLEAN :
        LET s0 == InitialState(variant, ps.num_pages,
                               [i \in Ctx |-> InitialWindowSize(variant).w], ok)
        IN  NoEntryLost(variant, {}, s0.log, LiveEntries(variant, s0))

\* C32: in every variant each step of navigation, resize, idle fill and
\* teardown, and the initial render, stores a new entry only where no live
\* entry is: every entry that disappears was destroyed, every render goes to
\* a page (in the ring: a slot) without a live entry, and no pointer to a
\* live entry is overwritten.
C32_NoOverwrite ==
    /\ [](C32_InitialRender)
    /\ [](Ops(log, "leak") = <<>>)
    /\ [][C32_Step]_vars
    /\ [][C32_RingSlotStep]_vars

\* beamview.c went from page 1 to page 2 by shifting: the entry of page 0
\* was destroyed before cache.prev took the entry of page 1.
C32_Witness ==
    /\ variant = "sw"
    /\ ps.current_page = 2
    /\ ps.cache.prev # NULL /\ ps.cache.prev.page_index = 1
    /\ ps.cache.cur # NULL /\ ps.cache.cur.page_index = 2
    /\ ps.cache.next = NULL
    /\ Ops(log, "destroy") = << <<"destroy", 0>> >>
    /\ Renders(log) = <<>>
\* The head event is a navigation key of beamview.c that changes the page
\* to one held by neither cache.prev nor cache.next
C33_MissingTarget ==
    /\ variant = "sw"
    /\ HandlesEvent
    /\ IsNavKey(Head(queue))
    /\ ClampedTarget(ps, Head(queue)) # ps.current_page
    /\ \A f \in {"prev", "cur", "next"} :
           ps.cache[f] = NULL \/ ps.cache[f].page_index # ClampedTarget(ps, Head(queue))

C33_MissStep ==
    C33_MissingTarget =>
        LET target == ClampedTarget(ps, Head(queue))
            after == ps' @@ [log |-> <<>>, fills |-> fills']
            idle == sw_update_cache(after, TRUE, TRUE)
        IN  /\ ps'.current_page = target
            /\ Renders(log') = << <<"render", target>> >>
            /\ Warnings(log') = << <<"warn", target>> >>
            /\ ps'.cache.prev = NULL /\ ps'.cache.next = NULL
            /\ ps'.cache.cur \in {NULL, NewEntry(ps, target)}
            /\ {Ops(log', "destroy")[k][2] : k \in 1 .. Len(Ops(log', "destroy"))}
                   = LiveEntries("sw", ps)
            /\ ps.cache.cur # NULL => ps.current_page \notin LiveEntries("sw", ps')
            /\ ps'.cache.cur # NULL =>
                   /\ NeighboursReady(idle)
                   /\ <<"render", ps.current_page>> \in
                          {Renders(idle.log)[k] : k \in 1 .. Len(Renders(idle.log))}

\* only the idle update_cache renders a page other than the current one
C33_NeighbourRenderStep ==
    (variant = "sw" /\ \E k \in 1 .. Len(Renders(log')) :
                          Renders(log')[k][2] # ps'.current_page)
    => IdleTick

\* C33: in beamview.c a navigation to a page held by neither cache.prev nor
\* cache.next renders that page alone during the key event, destroys every
\* entry the cache held, the old current page's included, and leaves
\* cache.prev and cache.next NULL; pages other than the current one are
\* rendered by idle update_cache steps only, which then render the old
\* current page again.
C33_MissRendersOnlyTarget ==
    /\ [][C33_MissStep]_vars
    /\ [][C33_NeighbourRenderStep]_vars

\* RIGHT came before the idle fill: page 0 was destroyed, page 1 rendered.
C33_Witness ==
    /\ variant = "sw"
    /\ ps.current_page = 1
    /\ ps.cache.cur # NULL /\ ps.cache.prev = NULL /\ ps.cache.next = NULL
    /\ Ops(log, "destroy") = << <<"destroy", 0>> >>
    /\ Renders(log) = << <<"render", 1>> >>
    /\ Warnings(log) = << <<"warn", 1>> >>
\* What one step of beamview.c does to pending_quit and running
C34_KeyStep ==
    (variant = "sw" /\ HandlesEvent /\ Head(queue).type = "KEYDOWN") =>
        IF Head(queue).key = "q"
        THEN IF ps.pending_quit
             THEN ~ps'.running /\ ps'.pending_quit
             ELSE ps'.pending_quit /\ ps'.running = ps.running
                  /\ ps' = [ps EXCEPT !.pending_quit = TRUE]
        ELSE ~ps'.pending_quit /\ ps'.running = ps.running

C34_OtherStep ==
    (variant = "sw" /\ ~(HandlesEvent /\ Head(queue).type = "KEYDOWN")) =>
        /\ ps'.pending_quit = ps.pending_quit
        /\ (ps.running /\ ~ps'.running) => (HandlesEvent /\ Head(queue) = QuitEvent)
        /\ ~ps.running => ~ps'.running

\* the loop starts disarmed
C34_StartsDisarmed ==
    variant = "sw" =>
        \A ok \in BOOLEAN :
            LET s0 == InitialState("sw", ps.num_pages, [i \in Ctx |-> InitialWindowSize("sw").w], ok)
            IN  ~s0.pending_quit /\ s0.running

=============================================================================
